---- MODULE Spec2Model ----
(***************************************************************************)
(* A model of the egress-cost pipeline's two Lambda handlers that act on   *)
(* live infrastructure or dispatch work:                                   *)
(*   - the Remediation Orchestrator                                        *)
(*     (application_logic/lambda_functions/remediation_orchestrator)       *)
(*   - the Detection Trigger                                               *)
(*     (application_logic/lambda_functions/anomaly_detector_trigger)       *)
(* Every external (boto3) call is one step of an invocation, so that       *)
(* concurrent invocations interleave at exactly the points where the code  *)
(* talks to AWS.  An external call may fail (ClientError, or any other     *)
(* exception) at any time.                                                 *)
(***************************************************************************)
EXTENDS Integers, Sequences, FiniteSets, TLC

\* ------------------------------------------------------------------------
\* Bounds of the model
\* ------------------------------------------------------------------------

\* Number of Remediation Orchestrator invocations (they may run concurrently).
MaxInvocations == 2

\* Number of Detection Trigger cycles the scheduler starts.
MaxCycles == 2

\* Largest feature batch (rows) the store may hold.
MaxRows == 2

\* Number of Bedrock Analyzer invocations.
MaxAnalyses == 1

\* Number of predict_fn calls on the scoring endpoint.
MaxScorings == 2

\* Number of runs of each batch job (training, feature engineering, Glue).
MaxRuns == 2

Invocations == 1..MaxInvocations

\* ------------------------------------------------------------------------
\* Values
\* ------------------------------------------------------------------------

\* Python's None, for a string-valued name.
None == "<None>"

\* `not x` for a string-valued x (None and '' are falsy).
Falsy(x) == x \in {None, ""}

S3Action == "remediate_s3_public_access"
SgAction == "remediate_security_group"

\* The action values the model feeds to the handler: the two known ones, an
\* unknown one, and the empty string (an absent key is a smaller DOMAIN).
ActionValues == {S3Action, SgAction, "remediate_iam_role", ""}

\* A resource id is a sequence of tokens; ":::" and "/" are the separators the
\* code splits on.
ArnBucket1 == <<"arn:aws:s3", ":::", "b1">>
ArnGroup1 == <<"arn:aws:ec2:r:a:security-group", "/", "sg1">>

ResourceIdValues == {ArnBucket1, ArnGroup1}

\* The buckets and security groups that exist, named as the APIs name them.
BucketNames == {<<"b1">>, <<"b2">>}
GroupIds == {<<"sg1">>, <<"sg2">>}

\* The four fields of PublicAccessBlockConfiguration; a configuration is the
\* set of the fields that are True.
PabFlags == {"BlockPublicAcls", "IgnorePublicAcls", "BlockPublicPolicy", "RestrictPublicBuckets"}

\* An ingress permission is identified by protocol and port range; its sources
\* are IPv4 CIDR ranges (IpRanges) and other sources (UserIdGroupPairs, ...).
PermKeys == {"tcp22", "tcp443"}
OpenCidr == "0.0.0.0/0"
CidrSources == {OpenCidr, "10.0.0.0/8"}
OtherSources == {"sg-peer"}
Sources == CidrSources \cup OtherSources

\* The rule sets security group sg1 may start with: any sources on port 22,
\* nothing or the open range on port 443.
InitialRules ==
  { r \in [PermKeys -> SUBSET Sources] : r["tcp443"] \in {{}, {OpenCidr}} }

\* The other group's rules, and the other bucket's configuration, at the start.
Group2Rules == [k \in PermKeys |-> IF k = "tcp22" THEN {OpenCidr, "sg-peer"} ELSE {}]

AnomalyDetailsValues == {"details-1"}

\* event.get('anomalyDetails', {}) when the key is absent.
EmptyDetails == "{}"

\* An absent resourceId (event.get returns None) and an empty one are both
\* falsy; the model writes both as the empty token sequence.
NoResource == <<>>

\* The events the handler is invoked with, as the three event.get calls read
\* them (lines 101-103): an absent action or resourceId reads as None.
Events ==
  [ action : ActionValues \cup {None},
    resourceId : ResourceIdValues \cup {NoResource},
    anomalyDetails : AnomalyDetailsValues ]

\* The event of an invocation that has not started.
NoEvent == [action |-> None, resourceId |-> NoResource, anomalyDetails |-> None]

\* s.split(sep)[-1] on a token sequence: what follows the last separator, the
\* whole sequence when there is none.
SplitLast(s, sep) ==
  IF s = <<>> THEN <<>>
  ELSE IF \E i \in 1..Len(s) : s[i] = sep
       THEN LET i == CHOOSE j \in 1..Len(s) : s[j] = sep /\ \A k \in (j+1)..Len(s) : s[k] # sep
            IN  SubSeq(s, i + 1, Len(s))
       ELSE s

\* bucket_name = resource_id.split(':::')[-1]
BucketNameOf(resource_id) == SplitLast(resource_id, ":::")

\* sg_id = resource_id.split('/')[-1]
GroupIdOf(resource_id) == SplitLast(resource_id, "/")

\* ------------------------------------------------------------------------
\* State
\* ------------------------------------------------------------------------

VARIABLES
  \* --- the infrastructure the orchestrator acts on
  pab,                      \* bucket name -> the PublicAccessBlock fields that are True
  rules,                    \* group id -> permission key -> its sources
  \* --- Remediation Orchestrator: module state and one record per invocation
  SNS_ANOMALY_TOPIC_ARN,    \* os.environ.get('SNS_ANOMALY_TOPIC_ARN')
  event,                    \* the invocation's input
  pc,                       \* where the invocation is
  ingress_rules_to_revoke,  \* the permissions selected from the describe result
  remediation_result,       \* the status in the handler's remediation_result
  returned,                 \* what lambda_handler returned
  \* --- history of each invocation (what an observer of AWS would have seen)
  fnReturn,                 \* the status the remediate_* function returned
  sgRead,                   \* the IpPermissions describe_security_groups returned
  mutatingCalls,            \* the mutating API calls made, in order
  published,                \* the notifications delivered to the sink, in order
  publishAttempts,          \* the number of sns publish calls made
  doneBefore,               \* the invocations that had ended when this one started
  \* --- Detection Trigger: module state, the feature store, one record per cycle
  environ,                  \* the environment variables that are set
  latestFeatures,           \* the latest feature batch in the store, or NoBatch
  tpc,                      \* where the cycle is
  anomalies,                \* the flagged rows still to dispatch
  tReturned,                \* what lambda_handler returned
  tGetObject,               \* how the cycle's s3.get_object call ended
  tScoringCalls,            \* the number of invoke_endpoint calls made
  tExecutions,              \* the inputs of the executions started, in order
  tAlerts,                  \* the failure alerts delivered to the sink
  tPublishAttempts,         \* the number of sns publish calls made
  tFailedCalls,             \* the external calls of the cycle that failed
  \* --- Bedrock Analyzer: module state, the evidence services, one record per analysis
  analyzerEnviron,          \* the environment variables that are set
  evidence,                 \* lookup -> whether the service holds anything for the resource
  aEvent,                   \* the analysis's input
  apc,                      \* where the analysis is
  context_data,             \* the sections get_contextual_data has appended
  llm_response_text,        \* what invoke_bedrock_llm returned
  aReturned,                \* what lambda_handler returned
  aCalls,                   \* the external calls made and how each ended, in order
  aPublished,               \* the alerts delivered to the sink, in order
  \* --- Scoring endpoint (inference_script): the loaded model and its calls
  model,                    \* the model model_fn loaded
  scored,                   \* the predict_fn calls made: input batch and result, in order
  \* --- Training job (training_script): its arguments, channel and artifact, one record per run
  random_state,             \* args.random_state
  trainInput,               \* run -> the rows of the files in the training channel
  evalBatch,                \* the batch the endpoint scores after each run
  modelArtifact,            \* model.joblib in the model directory, or NoModel
  trpc,                     \* where the run is
  trModel,                  \* the model the run fitted, or NoModel
  trScores,                 \* what predict_fn returned for evalBatch after the run
  \* --- Feature engineering job: its input, its output location, one record per run
  feInput,                  \* run -> the rows of the files in the input directory
  fepc,                     \* where the run is
  featureFile,              \* processed_features.parquet at the output location, or NoFile
  preprocessorFile,         \* preprocessor.joblib at the output location, or NoFile
  feFitted,                 \* the preprocessor the run fitted and transformed with, or NoFile
  feWritten,                \* the frame the run wrote, or NoFile
  \* --- CUR aggregation job (cur_parser): its source table, bookmark and output store
  curSource,                \* the line items in the catalog table, in delivery order
  bookmarkEnabled,          \* whether the job runs with job bookmarks enabled
  bookmark,                 \* the number of line items the committed runs have read
  curpc,                    \* where the run is
  aggregated,               \* the rows in the Parquet files under the output path
  \* --- Flow log aggregation job (flow_log_aggregator): its source table, one record per run
  flowSource,               \* the flow log records in the catalog table
  flowpc,                   \* where the run is
  df_egress_flows           \* run -> the flows the run kept as egress

remVars ==
  << pab, rules, SNS_ANOMALY_TOPIC_ARN, event, pc, ingress_rules_to_revoke,
     remediation_result, returned, fnReturn, sgRead, mutatingCalls, published,
     publishAttempts, doneBefore >>

trigVars ==
  << environ, latestFeatures, tpc, anomalies, tReturned, tGetObject, tScoringCalls,
     tExecutions, tAlerts, tPublishAttempts, tFailedCalls >>

anVars ==
  << analyzerEnviron, evidence, aEvent, apc, context_data, llm_response_text, aReturned,
     aCalls, aPublished >>

scVars == << model, scored >>

trainVars == << random_state, trainInput, evalBatch, modelArtifact, trpc, trModel, trScores >>

feVars == << feInput, fepc, featureFile, preprocessorFile, feFitted, feWritten >>

curVars == << curSource, bookmarkEnabled, bookmark, curpc, aggregated >>

flowVars == << flowSource, flowpc, df_egress_flows >>

jobVars == << trainVars, feVars, curVars, flowVars >>

vars == << remVars, trigVars, anVars, scVars, jobVars >>

\* What an action of one component leaves alone: the state of the others.
notRemVars == << trigVars, anVars, scVars, jobVars >>
notTrigVars == << remVars, anVars, scVars, jobVars >>
notAnVars == << remVars, trigVars, scVars, jobVars >>
notScVars == << remVars, trigVars, anVars, jobVars >>
notJobVars == << remVars, trigVars, anVars, scVars >>

AllPublicAccessBlocked == PabFlags

NoReturn == [statusCode |-> 0, body |-> None]

ConfigErrorBody == "Configuration error: Missing SNS_ANOMALY_TOPIC_ARN."
BadRequestBody == "Bad Request: Missing action or resourceId."

Ended(i) == pc[i] \in {"done", "raised"}

\* ------------------------------------------------------------------------
\* The AWS APIs the orchestrator calls, as functions of the resource state
\* ------------------------------------------------------------------------

\* describe_security_groups(GroupIds=[g])['SecurityGroups'][0]['IpPermissions']:
\* one permission per key that has a source, with all of that key's sources.
IpPermissions(rs) ==
  { [key |-> k, IpRanges |-> rs[k] \cap CidrSources, Others |-> rs[k] \cap OtherSources]
      : k \in { kk \in PermKeys : rs[kk] # {} } }

\* revoke_security_group_ingress(IpPermissions=perms): every source listed in a
\* permission of the request is removed from the rule of that key; a source
\* that is no longer there is ignored.
RevokeIngress(rs, perms) ==
  [k \in PermKeys |->
     rs[k] \ UNION { p.IpRanges \cup p.Others : p \in { q \in perms : q.key = k } }]

\* The sources a revoke of perms removes from rs.
Removed(rs, perms) ==
  { ks \in PermKeys \X Sources : ks[2] \in rs[ks[1]] /\ ks[2] \notin RevokeIngress(rs, perms)[ks[1]] }

\* OverlyPermissive as a loop that stops at the first match would select: one
\* of the permissions that list 0.0.0.0/0.
OverlyPermissive_FirstMatchOnly(ip_permissions) ==
  LET open == { p \in ip_permissions : \E ip_range \in p.IpRanges : ip_range = OpenCidr }
  IN  IF open = {} THEN {}
      ELSE { CHOOSE p \in open : \A q \in open : q.key = "tcp22" => p.key = "tcp22" }

\* Lines 57-66: the permissions of the describe result that list 0.0.0.0/0
\* among their IpRanges; each is appended whole.
OverlyPermissive(ip_permissions) ==
  { p \in ip_permissions : \E ip_range \in p.IpRanges : ip_range = OpenCidr }

\* ------------------------------------------------------------------------
\* Remediation Orchestrator
\* ------------------------------------------------------------------------

TopicArnValues == {None, "arn:aws:sns:r:a:egress-anomalies"}

\* Bucket b1 starts with one field set, bucket b2 with none.
InitialPab ==
  { [b \in BucketNames |-> IF b = <<"b1">> THEN {"BlockPublicAcls"} ELSE {}] }

RemInit ==
  /\ pab \in InitialPab
  /\ rules \in { [g \in GroupIds |-> IF g = <<"sg1">> THEN r ELSE Group2Rules] : r \in InitialRules }
  /\ SNS_ANOMALY_TOPIC_ARN \in TopicArnValues
  /\ event = [i \in Invocations |-> NoEvent]
  /\ pc = [i \in Invocations |-> "idle"]
  /\ ingress_rules_to_revoke = [i \in Invocations |-> {}]
  /\ remediation_result = [i \in Invocations |-> None]
  /\ returned = [i \in Invocations |-> NoReturn]
  /\ fnReturn = [i \in Invocations |-> None]
  /\ sgRead = [i \in Invocations |-> {}]
  /\ mutatingCalls = [i \in Invocations |-> <<>>]
  /\ published = [i \in Invocations |-> <<>>]
  /\ publishAttempts = [i \in Invocations |-> 0]
  /\ doneBefore = [i \in Invocations |-> {}]

\* PublicAccessBlockConfiguration with one of the four fields left out.
PublicAccessBlockConfiguration_ThreeFields ==
  {"BlockPublicAcls", "IgnorePublicAcls", "BlockPublicPolicy"}

\* Lines 30-38: the configuration put_public_access_block is called with.
PublicAccessBlockConfiguration ==
  {"BlockPublicAcls", "IgnorePublicAcls", "BlockPublicPolicy", "RestrictPublicBuckets"}

\* Dispatch without the closed-world default: an unknown action falls into the
\* last known branch.
Dispatch_NoDefault(action) ==
  IF action = S3Action THEN "s3_put" ELSE "sg_describe"

\* Dispatch sending the security-group task straight to the revoke call.
Dispatch_RevokeUnread(action) ==
  IF action = S3Action THEN "s3_put"
  ELSE IF action = SgAction THEN "sg_revoke"
  ELSE "publish"

\* Lines 114-121: the step the handler takes for an action value.
Dispatch(action) ==
  IF action = S3Action THEN "s3_put"
  ELSE IF action = SgAction THEN "sg_describe"
  ELSE "publish"

\* The input check looking at the action only.
BadRequest_ActionOnly(ev) == Falsy(ev.action)

\* Lines 105: the input check.
BadRequest(ev) == Falsy(ev.action) \/ ev.resourceId = NoResource

\* Line 103: anomaly_details = event.get('anomalyDetails', {}).
AnomalyDetailsOf(ev) == IF ev.anomalyDetails = None THEN EmptyDetails ELSE ev.anomalyDetails

\* Lines 124-130: the status notification.
StatusNotification(ev, status) ==
  [kind |-> "status", status |-> status, action |-> ev.action,
   resourceId |-> ev.resourceId, details |-> AnomalyDetailsOf(ev)]

\* FailureNotification without the event appended to the message.
FailureNotification_NoEvent(ev) ==
  [kind |-> "failure", status |-> "failed", action |-> ev.action,
   resourceId |-> ev.resourceId, details |-> None]

\* Lines 142-146: the failure alert; its message ends with the full event.
FailureNotification(ev) ==
  [kind |-> "failure", status |-> "failed", action |-> ev.action,
   resourceId |-> ev.resourceId, details |-> ev.anomalyDetails]

MutatingCall(api, target, ok, removed, config) ==
  [api |-> api, target |-> target, ok |-> ok, removed |-> removed, config |-> config]

\* Lines 92-121: lambda_handler up to its first external call.
HandlerEntry(i) ==
  /\ pc[i] = "idle"
  /\ \A j \in 1..(i - 1) : pc[j] # "idle"
  /\ \E ev \in Events :
       /\ event' = [event EXCEPT ![i] = ev]
       /\ doneBefore' = [doneBefore EXCEPT ![i] = { j \in Invocations : Ended(j) }]
       /\ IF Falsy(SNS_ANOMALY_TOPIC_ARN)
          THEN /\ returned' = [returned EXCEPT ![i] = [statusCode |-> 500, body |-> ConfigErrorBody]]
               /\ pc' = [pc EXCEPT ![i] = "done"]
               /\ UNCHANGED remediation_result
          ELSE IF BadRequest(ev)
          THEN /\ returned' = [returned EXCEPT ![i] = [statusCode |-> 400, body |-> BadRequestBody]]
               /\ pc' = [pc EXCEPT ![i] = "done"]
               /\ UNCHANGED remediation_result
          ELSE /\ pc' = [pc EXCEPT ![i] = Dispatch(ev.action)]
               /\ remediation_result' =
                    [remediation_result EXCEPT
                       ![i] = IF Dispatch(ev.action) = "publish" THEN "skipped" ELSE "failed"]
               /\ UNCHANGED returned
  /\ UNCHANGED << pab, rules, SNS_ANOMALY_TOPIC_ARN, ingress_rules_to_revoke, fnReturn,
                  sgRead, mutatingCalls, published, publishAttempts >>
  /\ UNCHANGED notRemVars

\* S3Put applying the block to every bucket of the account instead of the one
\* the resource id names.
S3Put_EveryBucket(i) ==
  /\ pc[i] = "s3_put"
  /\ LET bucket_name == BucketNameOf(event[i].resourceId) IN
     \E ok \in BOOLEAN :
       IF ok /\ bucket_name \in BucketNames
       THEN /\ pab' = [b \in BucketNames |-> PublicAccessBlockConfiguration]
            /\ mutatingCalls' =
                 [mutatingCalls EXCEPT ![i] = Append(@,
                    MutatingCall("put_public_access_block", bucket_name, TRUE, {},
                                 PublicAccessBlockConfiguration))]
            /\ fnReturn' = [fnReturn EXCEPT ![i] = "success"]
            /\ remediation_result' = [remediation_result EXCEPT ![i] = "success"]
            /\ pc' = [pc EXCEPT ![i] = "publish"]
       ELSE /\ mutatingCalls' =
                 [mutatingCalls EXCEPT ![i] = Append(@,
                    MutatingCall("put_public_access_block", bucket_name, FALSE, {}, {}))]
            /\ fnReturn' = [fnReturn EXCEPT ![i] = "raised"]
            /\ pc' = [pc EXCEPT ![i] = "except"]
            /\ UNCHANGED << pab, remediation_result >>
  /\ UNCHANGED << rules, SNS_ANOMALY_TOPIC_ARN, event, ingress_rules_to_revoke, returned,
                  sgRead, published, publishAttempts, doneBefore >>
  /\ UNCHANGED notRemVars

\* Lines 22-46: remediate_s3_public_access; the put call succeeds or raises.
S3Put(i) ==
  /\ pc[i] = "s3_put"
  /\ LET bucket_name == BucketNameOf(event[i].resourceId) IN
     \E ok \in BOOLEAN :
       IF ok /\ bucket_name \in BucketNames
       THEN /\ pab' = [pab EXCEPT ![bucket_name] = PublicAccessBlockConfiguration]
            /\ mutatingCalls' =
                 [mutatingCalls EXCEPT ![i] = Append(@,
                    MutatingCall("put_public_access_block", bucket_name, TRUE, {},
                                 PublicAccessBlockConfiguration))]
            /\ fnReturn' = [fnReturn EXCEPT ![i] = "success"]
            /\ remediation_result' = [remediation_result EXCEPT ![i] = "success"]
            /\ pc' = [pc EXCEPT ![i] = "publish"]
       ELSE /\ mutatingCalls' =
                 [mutatingCalls EXCEPT ![i] = Append(@,
                    MutatingCall("put_public_access_block", bucket_name, FALSE, {}, {}))]
            /\ fnReturn' = [fnReturn EXCEPT ![i] = "raised"]
            /\ pc' = [pc EXCEPT ![i] = "except"]
            /\ UNCHANGED << pab, remediation_result >>
  /\ UNCHANGED << rules, SNS_ANOMALY_TOPIC_ARN, event, ingress_rules_to_revoke, returned,
                  sgRead, published, publishAttempts, doneBefore >>
  /\ UNCHANGED notRemVars

\* Lines 53-68 and 76-78: remediate_security_group's read and selection.
SgDescribe(i) ==
  /\ pc[i] = "sg_describe"
  /\ LET sg_id == GroupIdOf(event[i].resourceId) IN
     \E ok \in BOOLEAN :
       IF ok /\ sg_id \in GroupIds
       THEN LET ip_permissions == IpPermissions(rules[sg_id])
                to_revoke == OverlyPermissive(ip_permissions)
            IN  /\ sgRead' = [sgRead EXCEPT ![i] = ip_permissions]
                /\ ingress_rules_to_revoke' = [ingress_rules_to_revoke EXCEPT ![i] = to_revoke]
                /\ IF to_revoke # {}
                   THEN /\ pc' = [pc EXCEPT ![i] = "sg_revoke"]
                        /\ UNCHANGED << fnReturn, remediation_result >>
                   ELSE /\ fnReturn' = [fnReturn EXCEPT ![i] = "no_action"]
                        /\ remediation_result' = [remediation_result EXCEPT ![i] = "no_action"]
                        /\ pc' = [pc EXCEPT ![i] = "publish"]
       ELSE /\ fnReturn' = [fnReturn EXCEPT ![i] = "raised"]
            /\ pc' = [pc EXCEPT ![i] = "except"]
            /\ UNCHANGED << sgRead, ingress_rules_to_revoke, remediation_result >>
  /\ UNCHANGED << pab, rules, SNS_ANOMALY_TOPIC_ARN, event, returned, mutatingCalls,
                  published, publishAttempts, doneBefore >>
  /\ UNCHANGED notRemVars

\* Lines 68-75: the revoke call with the permissions selected; it succeeds
\* (also when a permission is no longer on the group) or raises.
SgRevoke(i) ==
  /\ pc[i] = "sg_revoke"
  /\ LET sg_id == GroupIdOf(event[i].resourceId) IN
     \E ok \in BOOLEAN :
       IF ok
       THEN /\ rules' = [rules EXCEPT ![sg_id] = RevokeIngress(@, ingress_rules_to_revoke[i])]
            /\ mutatingCalls' =
                 [mutatingCalls EXCEPT ![i] = Append(@,
                    MutatingCall("revoke_security_group_ingress", sg_id, TRUE,
                                 Removed(rules[sg_id], ingress_rules_to_revoke[i]), {}))]
            /\ fnReturn' = [fnReturn EXCEPT ![i] = "success"]
            /\ remediation_result' = [remediation_result EXCEPT ![i] = "success"]
            /\ pc' = [pc EXCEPT ![i] = "publish"]
       ELSE /\ mutatingCalls' =
                 [mutatingCalls EXCEPT ![i] = Append(@,
                    MutatingCall("revoke_security_group_ingress", sg_id, FALSE, {}, {}))]
            /\ fnReturn' = [fnReturn EXCEPT ![i] = "raised"]
            /\ pc' = [pc EXCEPT ![i] = "except"]
            /\ UNCHANGED << rules, remediation_result >>
  /\ UNCHANGED << pab, SNS_ANOMALY_TOPIC_ARN, event, ingress_rules_to_revoke, returned,
                  sgRead, published, publishAttempts, doneBefore >>
  /\ UNCHANGED notRemVars

\* Lines 123-135: publish the status, then return it; a failing publish is
\* caught by the handler's except clause.
PublishStatus(i) ==
  /\ pc[i] = "publish"
  /\ publishAttempts' = [publishAttempts EXCEPT ![i] = @ + 1]
  /\ \E ok \in BOOLEAN :
       IF ok
       THEN /\ published' =
                 [published EXCEPT ![i] = Append(@, StatusNotification(event[i], remediation_result[i]))]
            /\ returned' =
                 [returned EXCEPT ![i] = [statusCode |-> 200, body |-> remediation_result[i]]]
            /\ pc' = [pc EXCEPT ![i] = "done"]
       ELSE /\ pc' = [pc EXCEPT ![i] = "except"]
            /\ UNCHANGED << published, returned >>
  /\ UNCHANGED << pab, rules, SNS_ANOMALY_TOPIC_ARN, event, ingress_rules_to_revoke,
                  remediation_result, fnReturn, sgRead, mutatingCalls, doneBefore >>
  /\ UNCHANGED notRemVars

\* Lines 137-150: the except clause; its own publish is not guarded, so an
\* exception there leaves lambda_handler.
HandleException(i) ==
  /\ pc[i] = "except"
  /\ remediation_result' = [remediation_result EXCEPT ![i] = "failed"]
  /\ publishAttempts' = [publishAttempts EXCEPT ![i] = @ + 1]
  /\ \E ok \in BOOLEAN :
       IF ok
       THEN /\ published' = [published EXCEPT ![i] = Append(@, FailureNotification(event[i]))]
            /\ returned' = [returned EXCEPT ![i] = [statusCode |-> 500, body |-> "failed"]]
            /\ pc' = [pc EXCEPT ![i] = "done"]
       ELSE /\ pc' = [pc EXCEPT ![i] = "raised"]
            /\ UNCHANGED << published, returned >>
  /\ UNCHANGED << pab, rules, SNS_ANOMALY_TOPIC_ARN, event, ingress_rules_to_revoke,
                  fnReturn, sgRead, mutatingCalls, doneBefore >>
  /\ UNCHANGED notRemVars

RemNext ==
  \E i \in Invocations :
    \/ HandlerEntry(i)
    \/ S3Put(i)
    \/ SgDescribe(i)
    \/ SgRevoke(i)
    \/ PublishStatus(i)
    \/ HandleException(i)

\* ------------------------------------------------------------------------
\* Detection Trigger
\* ------------------------------------------------------------------------

Cycles == 1..MaxCycles

\* Lines 24-27: the settings lambda_handler requires.
RequiredSettings ==
  {"SAGEMAKER_ENDPOINT_NAME", "PROCESSED_DATA_BUCKET", "SNS_ANOMALY_TOPIC_ARN", "STEP_FUNCTION_ARN"}

\* Lines 7-12: the names the module's import statements bind.
ModuleImports == {"json", "os", "logging", "boto3", "pd", "ClientError"}

\* Whether evaluating a module-level name succeeds (otherwise: NameError).
NameBound(name) == name \in ModuleImports

NoBatch == << "NoSuchKey" >>

\* A feature row: the resource it is about and its cost.
FeatureRows == [resource_id : {"r1", "r2"}, daily_egress_cost_usd : {1, 9}]

RECURSIVE SeqsUpTo(_, _)
SeqsUpTo(S, n) ==
  IF n = 0 THEN { <<>> }
  ELSE LET shorter == SeqsUpTo(S, n - 1)
       IN  shorter \cup { Append(q, x) : q \in { r \in shorter : Len(r) = n - 1 }, x \in S }

\* What the store may hold under the latest-features key.
StoreValues == { NoBatch } \cup { << "batch", rows >> : rows \in SeqsUpTo(FeatureRows, MaxRows) }

ConfigErrorBodyTrigger == "Configuration error: Missing environment variables."
NoNewDataBody == "No new data for inference."
CompletedBody == "Anomaly detection process completed."
ClientErrorBody == "AWS Client Error"
InternalErrorBody == "Internal Server Error"

TrigInit ==
  /\ environ \in SUBSET RequiredSettings
  /\ latestFeatures \in StoreValues
  /\ tpc = [c \in Cycles |-> "idle"]
  /\ anomalies = [c \in Cycles |-> <<>>]
  /\ tReturned = [c \in Cycles |-> NoReturn]
  /\ tGetObject = [c \in Cycles |-> None]
  /\ tScoringCalls = [c \in Cycles |-> 0]
  /\ tExecutions = [c \in Cycles |-> <<>>]
  /\ tAlerts = [c \in Cycles |-> <<>>]
  /\ tPublishAttempts = [c \in Cycles |-> 0]
  /\ tFailedCalls = [c \in Cycles |-> {}]

\* Line 37: all([...]) over the four settings.
ConfigurationComplete(env) == \A name \in RequiredSettings : name \in env

\* Lines 98-105: the input of the execution started for a flagged row.
StepFunctionInput(anomaly) ==
  [anomalyType |-> "EgressCostSpike", resourceId |-> anomaly.resource_id,
   costImpact |-> anomaly.daily_egress_cost_usd]

\* Line 91: the rows of the scoring result with is_anomaly = 1.
RECURSIVE Flagged(_)
Flagged(results) ==
  IF results = <<>> THEN <<>>
  ELSE IF Head(results).is_anomaly = 1
       THEN << Head(results) >> \o Flagged(Tail(results))
       ELSE Flagged(Tail(results))

\* The scoring results the endpoint may return for a batch: the same rows in
\* the same order, each with an is_anomaly flag.
ScoringResults(rows) ==
  { [k \in 1..Len(rows) |->
        [resource_id |-> rows[k].resource_id,
         daily_egress_cost_usd |-> rows[k].daily_egress_cost_usd,
         is_anomaly |-> flags[k]]] : flags \in [1..Len(rows) -> {0, 1}] }

\* TrigEntry without the configuration check: every cycle goes on to load.
TrigEntry_NoConfigCheck(c) ==
  /\ tpc[c] = "idle"
  /\ \A d \in 1..(c - 1) : tpc[d] \in {"done", "raised"}
  /\ tpc' = [tpc EXCEPT ![c] = "load"]
  /\ UNCHANGED << environ, latestFeatures, anomalies, tReturned, tGetObject, tScoringCalls,
                  tExecutions, tAlerts, tPublishAttempts, tFailedCalls >>
  /\ UNCHANGED notTrigVars

\* Lines 35-44: the configuration check.
TrigEntry(c) ==
  /\ tpc[c] = "idle"
  /\ \A d \in 1..(c - 1) : tpc[d] \in {"done", "raised"}
  /\ IF ConfigurationComplete(environ)
     THEN /\ tpc' = [tpc EXCEPT ![c] = "load"]
          /\ UNCHANGED tReturned
     ELSE /\ tpc' = [tpc EXCEPT ![c] = "done"]
          /\ tReturned' = [tReturned EXCEPT ![c] = [statusCode |-> 500, body |-> ConfigErrorBodyTrigger]]
  /\ UNCHANGED << environ, latestFeatures, anomalies, tGetObject, tScoringCalls,
                  tExecutions, tAlerts, tPublishAttempts, tFailedCalls >>
  /\ UNCHANGED notTrigVars

\* AfterGetObject without the NoSuchKey case: every ClientError is re-raised.
AfterGetObject_NoSuchKeyRaises(result) ==
  IF result \in {"NoSuchKey", "ClientError"} THEN "except_client"
  ELSE IF result = "Exception" THEN "except_other"
  ELSE IF NameBound("io") THEN "score"
  ELSE "except_other"

\* Lines 53-68: where the cycle goes after s3.get_object ended with result:
\* NoSuchKey ends the cycle; another ClientError is re-raised; with the
\* object, read_parquet(io.BytesIO(...)) evaluates the name io.
AfterGetObject(result) ==
  IF result = "NoSuchKey" THEN "done"
  ELSE IF result = "ClientError" THEN "except_client"
  ELSE IF result = "Exception" THEN "except_other"
  ELSE IF NameBound("io") THEN "score"
  ELSE "except_other"

\* Lines 50-68: get_object returns the object, reports NoSuchKey, or fails
\* otherwise (a ClientError or another exception).
TrigLoad(c) ==
  /\ tpc[c] = "load"
  /\ \E outcome \in {"ok", "ClientError", "Exception"} :
       LET result == IF outcome # "ok" THEN outcome
                     ELSE IF latestFeatures = NoBatch THEN "NoSuchKey" ELSE "ok"
       IN  /\ tGetObject' = [tGetObject EXCEPT ![c] = result]
           /\ tFailedCalls' = [tFailedCalls EXCEPT ![c] =
                                IF outcome = "ok" THEN @ ELSE @ \cup {"get_object"}]
           /\ tpc' = [tpc EXCEPT ![c] = AfterGetObject(result)]
           /\ IF AfterGetObject(result) = "done"
              THEN tReturned' = [tReturned EXCEPT ![c] = [statusCode |-> 200, body |-> NoNewDataBody]]
              ELSE UNCHANGED tReturned
  /\ UNCHANGED << environ, latestFeatures, anomalies, tScoringCalls, tExecutions, tAlerts,
                  tPublishAttempts >>
  /\ UNCHANGED notTrigVars

\* Lines 70-91: invoke_endpoint with the batch, and the selection of the
\* flagged rows from its result; lines 114-120 when there is none.
TrigScore(c) ==
  /\ tpc[c] = "score"
  /\ tScoringCalls' = [tScoringCalls EXCEPT ![c] = @ + 1]
  /\ \E outcome \in {"ok", "ClientError", "Exception"} :
       IF outcome = "ok"
       THEN \E results \in ScoringResults(latestFeatures[2]) :
              /\ anomalies' = [anomalies EXCEPT ![c] = Flagged(results)]
              /\ UNCHANGED tFailedCalls
              /\ IF Flagged(results) # <<>>
                 THEN /\ tpc' = [tpc EXCEPT ![c] = "dispatch"]
                      /\ UNCHANGED tReturned
                 ELSE /\ tpc' = [tpc EXCEPT ![c] = "done"]
                      /\ tReturned' = [tReturned EXCEPT ![c] = [statusCode |-> 200, body |-> CompletedBody]]
       ELSE /\ tpc' = [tpc EXCEPT ![c] = IF outcome = "ClientError" THEN "except_client" ELSE "except_other"]
            /\ tFailedCalls' = [tFailedCalls EXCEPT ![c] = @ \cup {"invoke_endpoint"}]
            /\ UNCHANGED << anomalies, tReturned >>
  /\ UNCHANGED << environ, latestFeatures, tGetObject, tExecutions, tAlerts, tPublishAttempts >>
  /\ UNCHANGED notTrigVars

\* Lines 95-120: start_execution for the next flagged row; the return after
\* the last one.
TrigDispatch(c) ==
  /\ tpc[c] = "dispatch"
  /\ \E outcome \in {"ok", "ClientError", "Exception"} :
       IF outcome = "ok"
       THEN /\ tExecutions' = [tExecutions EXCEPT ![c] = Append(@, StepFunctionInput(Head(anomalies[c])))]
            /\ anomalies' = [anomalies EXCEPT ![c] = Tail(@)]
            /\ IF Tail(anomalies[c]) = <<>>
               THEN /\ tpc' = [tpc EXCEPT ![c] = "done"]
                    /\ tReturned' = [tReturned EXCEPT ![c] = [statusCode |-> 200, body |-> CompletedBody]]
               ELSE UNCHANGED << tpc, tReturned >>
            /\ UNCHANGED tFailedCalls
       ELSE /\ tpc' = [tpc EXCEPT ![c] = IF outcome = "ClientError" THEN "except_client" ELSE "except_other"]
            /\ tFailedCalls' = [tFailedCalls EXCEPT ![c] = @ \cup {"start_execution"}]
            /\ UNCHANGED << anomalies, tExecutions, tReturned >>
  /\ UNCHANGED << environ, latestFeatures, tGetObject, tScoringCalls, tAlerts, tPublishAttempts >>
  /\ UNCHANGED notTrigVars

\* Lines 44-120: the next external call of the try block.
TrigTry(c) ==
  CASE tpc[c] = "load" -> TrigLoad(c)
    [] tpc[c] = "score" -> TrigScore(c)
    [] tpc[c] = "dispatch" -> TrigDispatch(c)
    [] OTHER -> FALSE

\* Lines 122-147: the two except clauses; each publishes an alert, unguarded,
\* and returns a 500 result.
TrigExcept(c) ==
  /\ tpc[c] \in {"except_client", "except_other"}
  /\ tPublishAttempts' = [tPublishAttempts EXCEPT ![c] = @ + 1]
  /\ \E ok \in BOOLEAN :
       IF ok
       THEN /\ tAlerts' = [tAlerts EXCEPT ![c] = Append(@, tpc[c])]
            /\ tReturned' =
                 [tReturned EXCEPT ![c] =
                    [statusCode |-> 500,
                     body |-> IF tpc[c] = "except_client" THEN ClientErrorBody ELSE InternalErrorBody]]
            /\ tpc' = [tpc EXCEPT ![c] = "done"]
            /\ UNCHANGED tFailedCalls
       ELSE /\ tpc' = [tpc EXCEPT ![c] = "raised"]
            /\ tFailedCalls' = [tFailedCalls EXCEPT ![c] = @ \cup {"publish"}]
            /\ UNCHANGED << tAlerts, tReturned >>
  /\ UNCHANGED << environ, latestFeatures, anomalies, tGetObject, tScoringCalls, tExecutions >>
  /\ UNCHANGED notTrigVars

TrigNext ==
  \E c \in Cycles :
    \/ TrigEntry(c)
    \/ TrigTry(c)
    \/ TrigExcept(c)

\* ------------------------------------------------------------------------
\* Bedrock Analyzer
\* ------------------------------------------------------------------------

Analyses == 1..MaxAnalyses

\* Lines 26-28: the settings lambda_handler requires.
AnalyzerSettings == {"BEDROCK_MODEL_ID", "SNS_ANOMALY_TOPIC_ARN", "PROCESSED_DATA_BUCKET"}

\* Line 178: all([...]) over the three settings.
AnalyzerConfigured(env) == \A name \in AnalyzerSettings : name \in env

\* 'N/A', the default of event.get('resourceId', 'N/A').
NotAvailable == << "N", "/", "A" >>

\* A resource id of seven '/'-separated parts.
PathResourceId == << "a", "/", "b", "/", "c", "/", "d", "/", "e", "/", "f", "/", "i-1" >>

AnalyzerResourceIds == {ArnGroup1, PathResourceId}

\* An event without the resourceId key.
AbsentResourceId == << "<absent>" >>

\* The events the analyzer is invoked with: resourceId present or absent.
AnalyzerEvents == [resourceId : AnalyzerResourceIds \cup {AbsentResourceId}]

NoAnalyzerEvent == [resourceId |-> AbsentResourceId]

\* Line 191: resource_id = event.get('resourceId', 'N/A').
ResourceIdOf(ev) == IF ev.resourceId = AbsentResourceId THEN NotAvailable ELSE ev.resourceId

\* len(s.split(sep)) on a token sequence.
SplitLen(s, sep) == Cardinality({ k \in 1..Len(s) : s[k] = sep }) + 1

\* Whether s.split(sep)[k] has a value (otherwise: IndexError).
IndexInSplit(s, sep, k) == k < SplitLen(s, sep)

\* Lines 37-100: the three read-only lookups, in the order of the code.
Lookups == << "get_resource_config_history", "lookup_events", "get_cost_and_usage" >>

LookupNames == { Lookups[k] : k \in 1..Len(Lookups) }

\* Lines 49, 70, 94: the section a lookup that found something appends.
SectionOf(lookup) ==
  CASE lookup = "get_resource_config_history" -> "--- AWS Config Recent Changes ---"
    [] lookup = "lookup_events" -> "--- AWS CloudTrail Recent Events ---"
    [] lookup = "get_cost_and_usage" -> "--- AWS Cost Explorer Snapshot ---"

\* The text a generative-model invocation may return.
Narrative == "analysis"

ConfigErrorBodyAnalyzer == "Configuration error: Missing environment variables."
AnalysisCompletedBody == "Bedrock analysis completed and alert sent."
AnalyzerErrorBody == "Internal Server Error"

NoAnalyzerReturn == [statusCode |-> 0, body |-> None, llm_analysis |-> None]

\* Lines 221-232 and 245-248: the two alerts publish_enriched_alert is called with.
EnrichedAlert(resource_id, text) ==
  [kind |-> "enriched", resource_id |-> resource_id, analysis |-> text]

FailureAlert(resource_id) ==
  [kind |-> "failure", resource_id |-> resource_id, analysis |-> None]

AnInit ==
  /\ analyzerEnviron \in SUBSET AnalyzerSettings
  /\ evidence \in [LookupNames -> BOOLEAN]
  /\ aEvent = [a \in Analyses |-> NoAnalyzerEvent]
  /\ apc = [a \in Analyses |-> "idle"]
  /\ context_data = [a \in Analyses |-> <<>>]
  /\ llm_response_text = [a \in Analyses |-> None]
  /\ aReturned = [a \in Analyses |-> NoAnalyzerReturn]
  /\ aCalls = [a \in Analyses |-> <<>>]
  /\ aPublished = [a \in Analyses |-> <<>>]

\* Lines 175-194: the configuration check and the reading of the event.
AnEntry(a) ==
  /\ apc[a] = "idle"
  /\ \A b \in 1..(a - 1) : apc[b] \in {"done", "raised"}
  /\ \E ev \in AnalyzerEvents : aEvent' = [aEvent EXCEPT ![a] = ev]
  /\ IF AnalyzerConfigured(analyzerEnviron)
     THEN /\ apc' = [apc EXCEPT ![a] = "template"]
          /\ UNCHANGED aReturned
     ELSE /\ apc' = [apc EXCEPT ![a] = "done"]
          /\ aReturned' = [aReturned EXCEPT ![a] =
                             [statusCode |-> 500, body |-> ConfigErrorBodyAnalyzer,
                              llm_analysis |-> None]]
  /\ UNCHANGED << analyzerEnviron, evidence, context_data, llm_response_text, aCalls, aPublished >>
  /\ UNCHANGED notAnVars

\* Lines 112-122 and 200-202: load_prompt_template re-raises any failure of
\* get_object; the handler raises on an empty template.
AnLoadTemplate(a) ==
  /\ apc[a] = "template"
  /\ \E outcome \in {"ok", "empty", "ClientError", "Exception"} :
       /\ aCalls' = [aCalls EXCEPT ![a] = Append(@, << "get_object", outcome >>)]
       /\ apc' = [apc EXCEPT ![a] = IF outcome = "ok" THEN "config_history" ELSE "except"]
  /\ UNCHANGED << analyzerEnviron, evidence, aEvent, context_data, llm_response_text,
                  aReturned, aPublished >>
  /\ UNCHANGED notAnVars

\* One lookup of get_contextual_data: the call finds something (its section
\* is appended), finds nothing, fails with a ClientError (logged, lines 54,
\* 74, 99) or fails with another exception, which no clause of
\* get_contextual_data catches.
AnLookup(a, lookup, next) ==
  \E outcome \in {"ok", "ClientError", "Exception"} :
    LET result == IF outcome # "ok" THEN outcome
                  ELSE IF evidence[lookup] THEN "found" ELSE "nothing"
    IN  /\ aCalls' = [aCalls EXCEPT ![a] = Append(@, << lookup, result >>)]
        /\ context_data' = [context_data EXCEPT ![a] =
                              IF result = "found" THEN Append(@, SectionOf(lookup)) ELSE @]
        /\ apc' = [apc EXCEPT ![a] = IF result = "Exception" THEN "except" ELSE next]

\* Lines 37-55: the configuration-history lookup.
AnConfigHistory(a) ==
  /\ apc[a] = "config_history"
  /\ AnLookup(a, Lookups[1], "cloudtrail")
  /\ UNCHANGED << analyzerEnviron, evidence, aEvent, llm_response_text, aReturned, aPublished >>
  /\ UNCHANGED notAnVars

\* Lines 58-75: the API-activity lookup; its arguments take
\* resource_id.split('/')[6], an IndexError when the id has fewer parts.
AnCloudTrail(a) ==
  /\ apc[a] = "cloudtrail"
  /\ IF IndexInSplit(ResourceIdOf(aEvent[a]), "/", 6)
     THEN AnLookup(a, Lookups[2], "cost")
     ELSE /\ apc' = [apc EXCEPT ![a] = "except"]
          /\ UNCHANGED << aCalls, context_data >>
  /\ UNCHANGED << analyzerEnviron, evidence, aEvent, llm_response_text, aReturned, aPublished >>
  /\ UNCHANGED notAnVars

\* Lines 78-100: the cost lookup; line 110 returns to the handler.
AnCost(a) ==
  /\ apc[a] = "cost"
  /\ AnLookup(a, Lookups[3], "invoke")
  /\ UNCHANGED << analyzerEnviron, evidence, aEvent, llm_response_text, aReturned, aPublished >>
  /\ UNCHANGED notAnVars

\* Lines 124-149 and 217-218: invoke_model returns a completion (a text or
\* the empty string), a body with no completion (get returns None, and
\* llm_response_text[:500] raises TypeError), or fails.
AnInvoke(a) ==
  /\ apc[a] = "invoke"
  /\ \E outcome \in {"text", "empty", "none", "ClientError", "Exception"} :
       /\ aCalls' = [aCalls EXCEPT ![a] = Append(@, << "invoke_model", outcome >>)]
       /\ llm_response_text' = [llm_response_text EXCEPT ![a] =
                                  CASE outcome = "text" -> Narrative
                                    [] outcome = "empty" -> ""
                                    [] OTHER -> None]
       /\ apc' = [apc EXCEPT ![a] = IF outcome \in {"text", "empty"} THEN "publish" ELSE "except"]
  /\ UNCHANGED << analyzerEnviron, evidence, aEvent, context_data, aReturned, aPublished >>
  /\ UNCHANGED notAnVars

\* Lines 221-238: the enriched alert and the statusCode 200 result;
\* publish_enriched_alert re-raises a failure of sns.publish (lines 151-168).
AnPublish(a) ==
  /\ apc[a] = "publish"
  /\ \E ok \in BOOLEAN :
       IF ok
       THEN /\ aCalls' = [aCalls EXCEPT ![a] = Append(@, << "publish", "ok" >>)]
            /\ aPublished' = [aPublished EXCEPT ![a] =
                 Append(@, EnrichedAlert(ResourceIdOf(aEvent[a]), llm_response_text[a]))]
            /\ aReturned' = [aReturned EXCEPT ![a] =
                 [statusCode |-> 200, body |-> AnalysisCompletedBody,
                  llm_analysis |-> llm_response_text[a]]]
            /\ apc' = [apc EXCEPT ![a] = "done"]
       ELSE /\ aCalls' = [aCalls EXCEPT ![a] = Append(@, << "publish", "ClientError" >>)]
            /\ apc' = [apc EXCEPT ![a] = "except"]
            /\ UNCHANGED << aPublished, aReturned >>
  /\ UNCHANGED << analyzerEnviron, evidence, aEvent, context_data, llm_response_text >>
  /\ UNCHANGED notAnVars

\* Lines 242-252: the except clause publishes a failure alert, unguarded, and
\* returns a statusCode 500 result.
AnExcept(a) ==
  /\ apc[a] = "except"
  /\ \E ok \in BOOLEAN :
       IF ok
       THEN /\ aCalls' = [aCalls EXCEPT ![a] = Append(@, << "publish", "ok" >>)]
            /\ aPublished' = [aPublished EXCEPT ![a] =
                 Append(@, FailureAlert(ResourceIdOf(aEvent[a])))]
            /\ aReturned' = [aReturned EXCEPT ![a] =
                 [statusCode |-> 500, body |-> AnalyzerErrorBody, llm_analysis |-> None]]
            /\ apc' = [apc EXCEPT ![a] = "done"]
       ELSE /\ aCalls' = [aCalls EXCEPT ![a] = Append(@, << "publish", "ClientError" >>)]
            /\ apc' = [apc EXCEPT ![a] = "raised"]
            /\ UNCHANGED << aPublished, aReturned >>
  /\ UNCHANGED << analyzerEnviron, evidence, aEvent, context_data, llm_response_text >>
  /\ UNCHANGED notAnVars

AnNext ==
  \E a \in Analyses :
    \/ AnEntry(a)
    \/ AnLoadTemplate(a)
    \/ AnConfigHistory(a)
    \/ AnCloudTrail(a)
    \/ AnCost(a)
    \/ AnInvoke(a)
    \/ AnPublish(a)
    \/ AnExcept(a)

\* ------------------------------------------------------------------------
\* Scoring endpoint (ml_models/anomaly_detection/inference_script.py)
\* ------------------------------------------------------------------------

\* The columns of dtype object; every other column of a batch is numeric.
ObjectColumns == {"resource_id", "service_code", "region", "usage_type", "usage_date"}

\* Line 61 (training_script line 57): select_dtypes(include=np.number) keeps
\* the numeric columns of a row.
SelectNumber(row) == [c \in (DOMAIN row) \ ObjectColumns |-> row[c]]

\* The feature vectors of the rows in FeatureRows.
FeatureValues == { SelectNumber(r) : r \in FeatureRows }

\* A fitted IsolationForest, as far as predict and decision_function read it:
\* the score its trees give a feature vector (score_samples) and the offset
\* fit derived from the contamination parameter (training_script lines 64-69).
\* n_features_in_ is the number of columns fit saw.
Models == [score_samples : [FeatureValues -> {-6, -4}], offset_ : {-5}, n_features_in_ : {1}]

NoModel == [score_samples |-> [v \in FeatureValues |-> 0], offset_ |-> 0, n_features_in_ |-> 0]

\* The batches predict_fn is called with: rows of two resources and two
\* costs, two of them with the same feature values (the fourth combination
\* would add batches and no case).
Batches == SeqsUpTo({ r \in FeatureRows : r.resource_id = "r1" \/ r.daily_egress_cost_usd = 9 }, MaxRows)

\* IsolationForest.decision_function and predict on one feature vector.
DecisionFunction(m, x) == m.score_samples[x] - m.offset_

Predict(m, x) == IF DecisionFunction(m, x) < 0 THEN -1 ELSE 1

\* One scored row: the input row with the two added columns.
ScoredRow(row, flag, score) ==
  [c \in (DOMAIN row) \cup {"is_anomaly", "anomaly_score"} |->
     IF c = "is_anomaly" THEN flag
     ELSE IF c = "anomaly_score" THEN score
     ELSE row[c]]

\* How a predict_fn call ends: with the scored batch, or raising.
Return(rows) == [raised |-> None, rows |-> rows]
Raise(exception) == [raised |-> exception, rows |-> <<>>]

\* predict_fn returning the flagged rows before the others.
predict_fn_FlaggedFirst(input_data, m) ==
  LET out == [k \in 1..Len(input_data) |->
                ScoredRow(input_data[k],
                          IF Predict(m, SelectNumber(input_data[k])) = -1 THEN 1 ELSE 0,
                          DecisionFunction(m, SelectNumber(input_data[k])))]
      IsFlagged(r) == r.is_anomaly = 1
      NotFlagged(r) == r.is_anomaly = 0
  IN  IF input_data = <<>> THEN Raise("ValueError")
      ELSE Return(SelectSeq(out, IsFlagged) \o SelectSeq(out, NotFlagged))

\* predict_fn with the threshold recomputed from the batch: the offset is
\* the highest score_samples value among the rows being scored.
predict_fn_BatchThreshold(input_data, m) ==
  LET scores == { m.score_samples[SelectNumber(input_data[k])] : k \in 1..Len(input_data) }
      top == CHOOSE x \in scores : \A y \in scores : y <= x
  IN  IF input_data = <<>> THEN Raise("ValueError")
      ELSE Return([k \in 1..Len(input_data) |->
                     ScoredRow(input_data[k],
                               IF m.score_samples[SelectNumber(input_data[k])] - top < 0 THEN 1 ELSE 0,
                               m.score_samples[SelectNumber(input_data[k])] - top)])

\* The number of columns of a frame of feature vectors.
Shape1(features) == Cardinality(DOMAIN features[1])

\* predict_fn cutting a frame that is too wide down to the columns the model
\* knows, and scoring what is left.
predict_fn_FirstColumns(input_data, m) ==
  LET known == DOMAIN (CHOOSE x \in DOMAIN m.score_samples : TRUE)
      cut == [k \in 1..Len(input_data) |->
                [c \in known \cap DOMAIN SelectNumber(input_data[k]) |-> input_data[k][c]]]
  IN  IF input_data = <<>> THEN Raise("ValueError")
      ELSE IF ~(known \subseteq DOMAIN SelectNumber(input_data[1])) THEN Raise("ValueError")
      ELSE Return([k \in 1..Len(input_data) |->
                     ScoredRow(input_data[k],
                               IF Predict(m, cut[k]) = -1 THEN 1 ELSE 0,
                               DecisionFunction(m, cut[k]))])

\* Lines 52-76: predict_fn; ValueError when there is nothing to score, and
\* from model.predict (line 65) when the frame has not the n_features_in_
\* columns the model was fitted on.
predict_fn(input_data, m) ==
  LET features_for_prediction == [k \in 1..Len(input_data) |-> SelectNumber(input_data[k])]
      predictions == [k \in 1..Len(input_data) |-> Predict(m, features_for_prediction[k])]
      is_anomaly == [k \in 1..Len(input_data) |-> IF predictions[k] = -1 THEN 1 ELSE 0]
  IN  IF features_for_prediction = <<>>
      THEN Raise("ValueError")
      ELSE IF Shape1(features_for_prediction) # m.n_features_in_
      THEN Raise("ValueError")
      ELSE Return([k \in 1..Len(input_data) |->
                     ScoredRow(input_data[k], is_anomaly[k],
                               DecisionFunction(m, features_for_prediction[k]))])

\* model_fn has loaded a model; no batch has been scored.
ScInit ==
  /\ model \in Models
  /\ scored = <<>>

\* One predict_fn call, with any batch.
Score ==
  /\ Len(scored) < MaxScorings
  /\ \E input_data \in Batches :
       scored' = Append(scored, [input |-> input_data, output |-> predict_fn(input_data, model)])
  /\ UNCHANGED model
  /\ UNCHANGED notScVars

ScNext == Score

\* ------------------------------------------------------------------------
\* Training job (ml_models/anomaly_detection/training_script.py)
\* ------------------------------------------------------------------------

Runs == 1..MaxRuns

\* The rows of processed features the training channel and the evaluation
\* batch are made of: one numeric column, or two.
NarrowFeatures == [daily_egress_cost_usd : {1, 9}]
WideFeatures == [daily_egress_cost_usd : {9}, daily_egress_usage_amount : {5}]

\* A frame has the same columns in every row; it may have no row.
TrainingSets == SeqsUpTo(NarrowFeatures, MaxRows) \cup SeqsUpTo(WideFeatures, MaxRows)

\* The evaluation batches: no row, two different rows of one column, one
\* row of two columns.
EvalBatches ==
  { <<>>,
    << [daily_egress_cost_usd |-> 1], [daily_egress_cost_usd |-> 9] >>,
    << [daily_egress_cost_usd |-> 9, daily_egress_usage_amount |-> 5] >> }

\* Line 30: --random_state is parsed as an int, 42 when not given.
Seeds == {42, 7}

\* What the operating system's entropy pool can hand a generator.
Entropy == {0, 1}

\* Lines 64-68: IsolationForest(random_state=args.random_state) seeds its
\* generator from the integer it is given and never reads the entropy pool.
SeedOf_Entropy(state, entropy) == entropy

SeedOf(state, entropy) == state

\* The number of rows of a frame that equal x.
Occurrences(features, x) == Cardinality({ k \in 1..Len(features) : features[k] = x })

\* Line 69: model.fit(features). The forest isolates a vector quickly when
\* it is rare in the training frame; how deep the randomly grown trees put a
\* rare vector depends on the generator's seed and on nothing else.
Fit(features, seed) ==
  LET n == Shape1(features)
  IN  [score_samples |->
         [x \in { v \in { SelectNumber(r) : r \in NarrowFeatures \cup WideFeatures } :
                     Cardinality(DOMAIN v) = n } |->
            IF 2 * Occurrences(features, x) >= Len(features) THEN -4 ELSE -6 - (seed % 2)],
       offset_ |-> -5,
       n_features_in_ |-> n]

\* The scores of a run whose evaluation has not been made.
NoScores == [raised |-> "<not called>", rows |-> <<>>]

\* The runs of the job, none started; no model has been saved yet.
TrainInit ==
  /\ random_state \in Seeds
  /\ trainInput \in [Runs -> TrainingSets]
  /\ evalBatch \in EvalBatches
  /\ modelArtifact = NoModel
  /\ trpc = [t \in Runs |-> "idle"]
  /\ trModel = [t \in Runs |-> NoModel]
  /\ trScores = [t \in Runs |-> NoScores]

\* Lines 39-76: one run of the script, once the run before it is over.
\* ValueError at line 59 when the frame has no row; otherwise fit and dump.
Train(t) ==
  /\ trpc[t] = "idle"
  /\ t > 1 => trpc[t - 1] \in {"raised", "fitted"}
  /\ LET features == [k \in 1..Len(trainInput[t]) |-> SelectNumber(trainInput[t][k])]
     IN  IF features = <<>>
         THEN /\ trpc' = [trpc EXCEPT ![t] = "raised"]
              /\ UNCHANGED << modelArtifact, trModel >>
         ELSE \E entropy \in Entropy :
                LET fitted == Fit(features, SeedOf(random_state, entropy))
                IN  /\ trModel' = [trModel EXCEPT ![t] = fitted]
                    /\ modelArtifact' = fitted
                    /\ trpc' = [trpc EXCEPT ![t] = "fitted"]
  /\ UNCHANGED << random_state, trainInput, evalBatch, trScores >>
  /\ UNCHANGED << notJobVars, feVars, curVars, flowVars >>

\* After the run and before the next one, the endpoint loads the model in
\* the model directory (model_fn, inference_script lines 17-28) and scores
\* the evaluation batch with predict_fn.
Evaluate(t) ==
  /\ trpc[t] \in {"raised", "fitted"}
  /\ \A u \in Runs : u > t => trpc[u] = "idle"
  /\ trScores[t] = NoScores
  /\ modelArtifact # NoModel
  /\ trScores' = [trScores EXCEPT ![t] = predict_fn(evalBatch, modelArtifact)]
  /\ UNCHANGED << random_state, trainInput, evalBatch, modelArtifact, trpc, trModel >>
  /\ UNCHANGED << notJobVars, feVars, curVars, flowVars >>

TrainNext == \E t \in Runs : Train(t) \/ Evaluate(t)

\* ------------------------------------------------------------------------
\* Feature engineering job
\* (data_processing_scripts/sagemaker_processing_scripts/feature_engineering.py)
\* ------------------------------------------------------------------------

\* The usage dates of the rows, as (year, month, day): a Friday and a Saturday.
Dates == { << 2024, 6, 7 >>, << 2024, 6, 8 >> }

\* Line 43: dt.dayofweek, Monday=0 .. Sunday=6, by the calendar's arithmetic.
DayOfWeek(date) ==
  LET shift == << 0, 3, 2, 5, 0, 3, 5, 1, 4, 6, 2, 4 >>
      y == IF date[2] < 3 THEN date[1] - 1 ELSE date[1]
      sunday0 == (y + (y \div 4) - (y \div 100) + (y \div 400) + shift[date[2]] + date[3]) % 7
  IN  (sunday0 + 6) % 7

\* The aggregated usage rows the job reads (the columns it uses).
UsageRows ==
  { r \in [usage_date : Dates,
           service_code : {"AmazonS3"},
           region : {"us-east-1"},
           usage_type : {"DataTransfer-Out-Bytes"},
           daily_egress_cost_usd : {1, 9},
           daily_egress_usage_amount : {5}] :
      DayOfWeek(r.usage_date) = 5 => r.daily_egress_cost_usd = 9 }

\* Line 36: the concatenated input files; they may hold no row.
UsageFrames == SeqsUpTo(UsageRows, MaxRows)

\* Lines 42-47: the calendar columns added to a row. (week_of_year, line 46,
\* is left out: no later line reads it.)
TimeFeatures(row) ==
  [c \in (DOMAIN row) \cup {"day_of_week", "day_of_month", "month", "is_weekend"} |->
     IF c = "day_of_week" THEN DayOfWeek(row.usage_date)
     ELSE IF c = "day_of_month" THEN row.usage_date[3]
     ELSE IF c = "month" THEN row.usage_date[2]
     ELSE IF c = "is_weekend" THEN (IF DayOfWeek(row.usage_date) \in {5, 6} THEN 1 ELSE 0)
     ELSE row[c]]

\* Lines 60-61.
categorical_features == {"service_code", "region", "usage_type", "day_of_week", "month"}
numerical_features == {"daily_egress_cost_usd", "daily_egress_usage_amount"}

RECURSIVE ColumnSum(_, _, _)
\* The sum over the rows of column c raised to the power 1 or 2.
ColumnSum(df, c, power) ==
  IF df = <<>> THEN 0
  ELSE (IF power = 2 THEN df[1][c] * df[1][c] ELSE df[1][c]) + ColumnSum(Tail(df), c, power)

\* StandardScaler.fit on one column: the statistics mean_ and scale_ are
\* computed from (the number of rows, the sum, the sum of squares).
ScalerFit(df, c) ==
  [n_samples_seen_ |-> Len(df), sum |-> ColumnSum(df, c, 1), sumsq |-> ColumnSum(df, c, 2)]

\* StandardScaler.transform of x: (x - mean_) / scale_, kept exact as the
\* numerator n*(x - mean_) and the square n*n*var_ of its denominator; a
\* column of zero variance is scaled by 1 and gives 0.
Scaled(x, stats) ==
  [numerator |-> stats.n_samples_seen_ * x - stats.sum,
   denominator2 |-> stats.n_samples_seen_ * stats.sumsq - stats.sum * stats.sum]

\* Line 83: get_feature_names_out names a one-hot column feature_category.
OneHotName(feature, category) ==
  feature \o "_" \o (IF feature \in {"day_of_week", "month"} THEN ToString(category) ELSE category)

\* Lines 64-72, the fit half of fit_transform: the scaler statistics of each
\* numerical column and the categories seen in each categorical column.
FitPreprocessor(df) ==
  [num |-> [c \in numerical_features |-> ScalerFit(df, c)],
   cat |-> [f \in categorical_features |-> { df[k][f] : k \in 1..Len(df) }]]

\* Lines 72-87, the transform half: the scaled numerical columns followed by
\* the one-hot columns, and nothing else (remainder='drop' is the default
\* of ColumnTransformer). A category not seen at fit gets no column
\* (handle_unknown='ignore').
Transform(preprocessor, row) ==
  LET ohe_feature_names ==
        UNION { { OneHotName(f, v) : v \in preprocessor.cat[f] } : f \in categorical_features }
      all_feature_names == numerical_features \cup ohe_feature_names
      hot == { OneHotName(f, row[f]) : f \in categorical_features }
  IN  [c \in all_feature_names |->
         IF c \in numerical_features
         THEN Scaled(row[c], preprocessor.num[c])
         ELSE IF c \in hot THEN 1 ELSE 0]

\* No file at the output location.
NoFile == << "<no file>" >>

\* The fit of line 72 rejecting a frame with no row.
TooFewSamples_Never(df) == FALSE

\* Line 72: StandardScaler's fit needs at least one row and raises ValueError
\* otherwise.
TooFewSamples(df) == Len(df) < 1

\* The runs of the job, none started; nothing at the output location.
FeInit ==
  /\ feInput \in [Runs -> UsageFrames]
  /\ fepc = [r \in Runs |-> "idle"]
  /\ featureFile = NoFile
  /\ preprocessorFile = NoFile
  /\ feFitted = [r \in Runs |-> NoFile]
  /\ feWritten = [r \in Runs |-> NoFile]

\* Lines 28-98: one run of the script, once the run before it is over.
FeatureEngineering(r) ==
  /\ fepc[r] = "idle"
  /\ r > 1 => fepc[r - 1] \in {"raised", "written"}
  /\ LET df == [k \in 1..Len(feInput[r]) |-> TimeFeatures(feInput[r][k])]
         preprocessor == FitPreprocessor(df)
         df_transformed == [k \in 1..Len(df) |-> Transform(preprocessor, df[k])]
     IN  IF TooFewSamples(df)
         THEN /\ fepc' = [fepc EXCEPT ![r] = "raised"]
              /\ UNCHANGED << featureFile, preprocessorFile, feFitted, feWritten >>
         ELSE /\ featureFile' = << "frame", df_transformed >>
              /\ preprocessorFile' = << "preprocessor", preprocessor >>
              /\ feFitted' = [feFitted EXCEPT ![r] = << "preprocessor", preprocessor >>]
              /\ feWritten' = [feWritten EXCEPT ![r] = << "frame", df_transformed >>]
              /\ fepc' = [fepc EXCEPT ![r] = "written"]
  /\ UNCHANGED feInput
  /\ UNCHANGED << notJobVars, trainVars, curVars, flowVars >>

FeNext == \E r \in Runs : FeatureEngineering(r)

\* ------------------------------------------------------------------------
\* CUR aggregation job (data_processing_scripts/glue_scripts/cur_parser.py)
\* ------------------------------------------------------------------------

\* Lines 61-72 (the entries the line items below can match).
egress_usage_types == {"DataTransfer-Out-Bytes", "S3-Bytes-Out"}

\* The line items of the Cost and Usage Report, with the columns the job
\* reads; the usage start is (year, month, day, hour).
LineItems ==
  [line_item_usage_start_date : {<< 2024, 6, 7, 0 >>},
   product_servicecode : {"AmazonS3"},
   line_item_usage_type : {"DataTransfer-Out-Bytes", "TimedStorage-ByteHrs"},
   product_region : {"us-east-1"},
   line_item_resource_id : {"bucket-a", "bucket-b"},
   line_item_unblended_cost : {1},
   line_item_usage_amount : {5}]

\* Lines 84-88: the grouping key of a line item.
GroupKey(item) ==
  [usage_date |-> SubSeq(item.line_item_usage_start_date, 1, 3),
   service_code |-> item.product_servicecode,
   usage_type |-> item.line_item_usage_type,
   region |-> item.product_region,
   resource_id |-> item.line_item_resource_id]

\* Lines 75-97: the egress line items grouped by key, cost and usage summed
\* per group, each row stamped with the start time of the run.
Aggregate(df_cur, started_on) ==
  LET IsEgress(item) == item.line_item_usage_type \in egress_usage_types
      df_egress == SelectSeq(df_cur, IsEgress)
      Group(key) == LET InGroup(item) == GroupKey(item) = key IN SelectSeq(df_egress, InGroup)
  IN  { [usage_date |-> key.usage_date,
         service_code |-> key.service_code,
         usage_type |-> key.usage_type,
         region |-> key.region,
         resource_id |-> key.resource_id,
         daily_egress_cost_usd |-> ColumnSum(Group(key), "line_item_unblended_cost", 1),
         daily_egress_usage_amount |-> ColumnSum(Group(key), "line_item_usage_amount", 1),
         processing_timestamp |-> started_on] :
        key \in { GroupKey(df_egress[k]) : k \in 1..Len(df_egress) } }

\* Line 97 reads job.started_on, which awsglue's Job object provides in some
\* releases of the library and not in others.
StartedOnOutcomes == {"read", "AttributeError"}

\* The runs of the job, none started; the output path holds nothing.
CurInit ==
  /\ curSource \in SeqsUpTo(LineItems, MaxRows)
  /\ bookmarkEnabled \in BOOLEAN
  /\ bookmark = 0
  /\ curpc = [r \in Runs |-> "idle"]
  /\ aggregated = {}

\* The billing service delivers one more line item to the source table.
Deliver ==
  /\ Len(curSource) < MaxRows
  /\ \E item \in LineItems : curSource' = Append(curSource, item)
  /\ UNCHANGED << bookmarkEnabled, bookmark, curpc, aggregated >>
  /\ UNCHANGED << notJobVars, trainVars, feVars, flowVars >>

\* Lines 27-109: one run of the script, once the run before it is over. With
\* bookmarks enabled from_catalog (lines 39-43, transformation_ctx) returns
\* the line items delivered since the last committed run, otherwise all of
\* them; the rows are appended under the output path (lines 102-105,
\* mode "append"); job.commit() (line 109) moves the bookmark.
CurParser(r) ==
  /\ curpc[r] = "idle"
  /\ r > 1 => curpc[r - 1] \in {"raised", "committed"}
  /\ \E started_on \in StartedOnOutcomes :
       IF started_on = "AttributeError"
       THEN /\ curpc' = [curpc EXCEPT ![r] = "raised"]
            /\ UNCHANGED << bookmark, aggregated >>
       ELSE LET df_cur == IF bookmarkEnabled
                          THEN SubSeq(curSource, bookmark + 1, Len(curSource))
                          ELSE curSource
            IN  /\ aggregated' = aggregated \cup Aggregate(df_cur, r)
                /\ bookmark' = IF bookmarkEnabled THEN Len(curSource) ELSE bookmark
                /\ curpc' = [curpc EXCEPT ![r] = "committed"]
  /\ UNCHANGED << curSource, bookmarkEnabled >>
  /\ UNCHANGED << notJobVars, trainVars, feVars, flowVars >>

CurNext == Deliver \/ \E r \in Runs : CurParser(r)

\* ------------------------------------------------------------------------
\* Flow log aggregation job
\* (data_processing_scripts/glue_scripts/flow_log_aggregator.py)
\* ------------------------------------------------------------------------

\* The flow log records, with the columns lines 65-80 read; an address is
\* its four octets.
Flows ==
  [action : {"ACCEPT", "REJECT"},
   bytes : {0, 100},
   dstaddr : { << 10, 1, 2, 3 >>, << 172, 20, 0, 9 >>, << 192, 168, 1, 1 >>, << 8, 8, 8, 8 >> }]

\* Lines 65-68: the accepted flows that carried data.
Filtered(df_flow_logs) ==
  LET Keep(flow) == flow.action = "ACCEPT" /\ flow.bytes > 0
  IN  SelectSeq(df_flow_logs, Keep)

\* The Python objects the condition of lines 76-77 is built from: pyspark
\* Column expressions and int literals.
PyColumn == "Column"
PyInt == "int"

\* a | b and a < b, a > b: a Column as soon as one operand is a Column
\* (Column defines __or__, __ror__, __lt__ and __gt__).
PyBinary(a, b) == IF PyColumn \in {a, b} THEN PyColumn ELSE PyInt

\* bool(obj), which Python's "and" takes of its left operand: Column.__bool__
\* raises ValueError.
PyBool(obj) == IF obj = PyColumn THEN "ValueError" ELSE "bool"

\* Line 77: "octet < 16 | octet > 31". "|" binds tighter than the
\* comparisons, so this is the chained comparison octet < (16 | octet) > 31,
\* which Python evaluates as (octet < t) and (t > 31) with t = 16 | octet.
Line77 ==
  LET octet == PyColumn
      t == PyBinary(PyInt, octet)
  IN  PyBool(PyBinary(octet, t))

\* The runs of the job, none started.
FlowInit ==
  /\ flowSource \in SeqsUpTo(Flows, MaxRows)
  /\ flowpc = [r \in Runs |-> "idle"]
  /\ df_egress_flows = [r \in Runs |-> <<>>]

\* Lines 27-80: one run of the script, once the run before it is over. The
\* condition of the is_egress column cannot be built: the run raises at
\* line 77, before any flow is classified and before anything is written.
FlowLogAggregator(r) ==
  /\ flowpc[r] = "idle"
  /\ r > 1 => flowpc[r - 1] = "raised"
  /\ Line77 = "ValueError"
  /\ flowpc' = [flowpc EXCEPT ![r] = "raised"]
  /\ UNCHANGED << flowSource, df_egress_flows >>
  /\ UNCHANGED << notJobVars, trainVars, feVars, curVars >>

FlowNext == \E r \in Runs : FlowLogAggregator(r)

\* ------------------------------------------------------------------------
\* Specifications
\* ------------------------------------------------------------------------

\* The trigger's state before any cycle, its store and results empty.
TrigBlank ==
  /\ latestFeatures = NoBatch
  /\ anomalies = [c \in Cycles |-> <<>>]
  /\ tReturned = [c \in Cycles |-> NoReturn]
  /\ tGetObject = [c \in Cycles |-> None]
  /\ tScoringCalls = [c \in Cycles |-> 0]
  /\ tExecutions = [c \in Cycles |-> <<>>]
  /\ tAlerts = [c \in Cycles |-> <<>>]
  /\ tPublishAttempts = [c \in Cycles |-> 0]
  /\ tFailedCalls = [c \in Cycles |-> {}]

\* The trigger not deployed: no cycle ever starts.
TrigQuiet ==
  /\ TrigBlank
  /\ environ = {}
  /\ tpc = [c \in Cycles |-> "off"]

\* The orchestrator's state before any invocation, with no event read.
RemBlank ==
  /\ pab = [b \in BucketNames |-> {}]
  /\ rules = [g \in GroupIds |-> Group2Rules]
  /\ event = [i \in Invocations |-> NoEvent]
  /\ ingress_rules_to_revoke = [i \in Invocations |-> {}]
  /\ remediation_result = [i \in Invocations |-> None]
  /\ returned = [i \in Invocations |-> NoReturn]
  /\ fnReturn = [i \in Invocations |-> None]
  /\ sgRead = [i \in Invocations |-> {}]
  /\ mutatingCalls = [i \in Invocations |-> <<>>]
  /\ published = [i \in Invocations |-> <<>>]
  /\ publishAttempts = [i \in Invocations |-> 0]
  /\ doneBefore = [i \in Invocations |-> {}]

\* The orchestrator not deployed: no invocation ever starts.
RemQuiet ==
  /\ RemBlank
  /\ SNS_ANOMALY_TOPIC_ARN = None
  /\ pc = [i \in Invocations |-> "off"]

\* The analyzer's state before any analysis, with no evidence anywhere.
AnBlank ==
  /\ evidence = [l \in LookupNames |-> FALSE]
  /\ aEvent = [a \in Analyses |-> NoAnalyzerEvent]
  /\ context_data = [a \in Analyses |-> <<>>]
  /\ llm_response_text = [a \in Analyses |-> None]
  /\ aReturned = [a \in Analyses |-> NoAnalyzerReturn]
  /\ aCalls = [a \in Analyses |-> <<>>]
  /\ aPublished = [a \in Analyses |-> <<>>]

\* The analyzer not deployed: no analysis ever starts.
AnQuiet ==
  /\ AnBlank
  /\ analyzerEnviron = {}
  /\ apc = [a \in Analyses |-> "off"]

\* The scoring endpoint not deployed.
ScQuiet ==
  /\ model = NoModel
  /\ scored = <<>>

\* The training job not deployed: no run ever starts.
TrainQuiet ==
  /\ random_state = 42
  /\ trainInput = [t \in Runs |-> <<>>]
  /\ evalBatch = <<>>
  /\ modelArtifact = NoModel
  /\ trpc = [t \in Runs |-> "off"]
  /\ trModel = [t \in Runs |-> NoModel]
  /\ trScores = [t \in Runs |-> NoScores]

\* The feature engineering job not deployed.
FeQuiet ==
  /\ feInput = [r \in Runs |-> <<>>]
  /\ fepc = [r \in Runs |-> "off"]
  /\ featureFile = NoFile
  /\ preprocessorFile = NoFile
  /\ feFitted = [r \in Runs |-> NoFile]
  /\ feWritten = [r \in Runs |-> NoFile]

\* The CUR aggregation job not deployed.
CurQuiet ==
  /\ curSource = <<>>
  /\ bookmarkEnabled = FALSE
  /\ bookmark = 0
  /\ curpc = [r \in Runs |-> "off"]
  /\ aggregated = {}

\* The flow log aggregation job not deployed.
FlowQuiet ==
  /\ flowSource = <<>>
  /\ flowpc = [r \in Runs |-> "off"]
  /\ df_egress_flows = [r \in Runs |-> <<>>]

\* None of the batch jobs deployed.
JobsQuiet == TrainQuiet /\ FeQuiet /\ CurQuiet /\ FlowQuiet

\* The three handlers deployed together, all without the notification topic
\* setting (SNS_ANOMALY_TOPIC_ARN is required by each of them).
InitMisconfigured ==
  /\ RemBlank
  /\ SNS_ANOMALY_TOPIC_ARN = None
  /\ pc = [i \in Invocations |-> "idle"]
  /\ TrigBlank
  /\ environ = RequiredSettings \ {"SNS_ANOMALY_TOPIC_ARN"}
  /\ tpc = [c \in Cycles |-> "idle"]
  /\ AnBlank
  /\ analyzerEnviron = AnalyzerSettings \ {"SNS_ANOMALY_TOPIC_ARN"}
  /\ apc = [a \in Analyses |-> "idle"]
  /\ ScQuiet
  /\ JobsQuiet

InitRemediation == RemInit /\ TrigQuiet /\ AnQuiet /\ ScQuiet /\ JobsQuiet

InitTrigger == TrigInit /\ RemQuiet /\ AnQuiet /\ ScQuiet /\ JobsQuiet

InitAnalyzer == AnInit /\ RemQuiet /\ TrigQuiet /\ ScQuiet /\ JobsQuiet

InitScoring == ScInit /\ RemQuiet /\ TrigQuiet /\ AnQuiet /\ JobsQuiet

LambdasQuiet == RemQuiet /\ TrigQuiet /\ AnQuiet /\ ScQuiet

InitTraining == TrainInit /\ FeQuiet /\ CurQuiet /\ FlowQuiet /\ LambdasQuiet

InitFeatures == FeInit /\ TrainQuiet /\ CurQuiet /\ FlowQuiet /\ LambdasQuiet

InitCurParser == CurInit /\ TrainQuiet /\ FeQuiet /\ FlowQuiet /\ LambdasQuiet

InitFlowLogs == FlowInit /\ TrainQuiet /\ FeQuiet /\ CurQuiet /\ LambdasQuiet

\* A model saved by a run before the ones followed here.
PriorModel == Fit(<< [daily_egress_cost_usd |-> 1] >>, 42)

\* Both jobs deployed, every input holding files without a row; the endpoint
\* serves the model of an earlier run and is sent an empty batch.
InitZeroRows ==
  /\ feInput = [r \in Runs |-> <<>>]
  /\ fepc = [r \in Runs |-> "idle"]
  /\ featureFile = NoFile
  /\ preprocessorFile = NoFile
  /\ feFitted = [r \in Runs |-> NoFile]
  /\ feWritten = [r \in Runs |-> NoFile]
  /\ random_state \in Seeds
  /\ trainInput = [t \in Runs |-> <<>>]
  /\ evalBatch = <<>>
  /\ modelArtifact = PriorModel
  /\ trpc = [t \in Runs |-> "idle"]
  /\ trModel = [t \in Runs |-> NoModel]
  /\ trScores = [t \in Runs |-> NoScores]
  /\ CurQuiet
  /\ FlowQuiet
  /\ LambdasQuiet

\* Either job deployed alone, or both with inputs that hold no row.
InitLearning == InitFeatures \/ InitTraining \/ InitZeroRows

LearningNext == FeNext \/ TrainNext

SpecRemediation == InitRemediation /\ [][RemNext]_vars

SpecTrigger == InitTrigger /\ [][TrigNext]_vars

SpecAnalyzer == InitAnalyzer /\ [][AnNext]_vars

SpecScoring == InitScoring /\ [][ScNext]_vars

SpecTraining == InitTraining /\ [][TrainNext]_vars

SpecFeatures == InitFeatures /\ [][FeNext]_vars

SpecLearning == InitLearning /\ [][LearningNext]_vars

SpecCurParser == InitCurParser /\ [][CurNext]_vars

SpecFlowLogs == InitFlowLogs /\ [][FlowNext]_vars

\* Any one of the three handlers deployed with the other two off, or the
\* three of them deployed misconfigured.
InitPipeline == InitRemediation \/ InitTrigger \/ InitAnalyzer \/ InitMisconfigured

PipelineNext == RemNext \/ TrigNext \/ AnNext

SpecPipeline == InitPipeline /\ [][PipelineNext]_vars

\* ------------------------------------------------------------------------
\* Properties of the Remediation Orchestrator
\* ------------------------------------------------------------------------

Statuses == {"success", "no_action", "skipped", "failed"}

KnownActions == {S3Action, SgAction}

Started(i) == pc[i] # "idle"

\* The mutating calls of invocation i, as a set of positions.
Calls(i) == 1..Len(mutatingCalls[i])

\* Invocation i's call of api reached AWS and succeeded.
Succeeded(i, api) ==
  \E n \in Calls(i) : mutatingCalls[i][n].api = api /\ mutatingCalls[i][n].ok

\* remediate_security_group got the describe result (it did not raise there).
DescribeReturned(i) ==
  /\ event[i].action = SgAction
  /\ ~Falsy(SNS_ANOMALY_TOPIC_ARN)
  /\ ~BadRequest(event[i])
  /\ pc[i] \notin {"idle", "sg_describe"}
  /\ ~(fnReturn[i] = "raised" /\ mutatingCalls[i] = <<>>)

\* j ran after i had ended, on the same task, and no third invocation acted
\* on a resource in between.
InSuccession(i, j) ==
  /\ i # j
  /\ Started(j)
  /\ i \in doneBefore[j]
  /\ event[i].action = event[j].action
  /\ event[i].resourceId = event[j].resourceId
  /\ \A k \in Invocations \ {i, j} :
       \/ ~Started(k)
       \/ k \in doneBefore[i]
       \/ j \in doneBefore[k]
       \/ mutatingCalls[k] = <<>>

C2_Original ==
  \A i \in Invocations : \A n \in Calls(i) :
    mutatingCalls[i][n].api = "revoke_security_group_ingress"
    => \A ks \in mutatingCalls[i][n].removed : ks[2] = OpenCidr

\* C3: when a security-group task runs again after a run that returned
\* 'success', the second run makes no revoke call and what it returns is
\* 'no_action'.
C3_SecondRunNoAction ==
  \A i, j \in Invocations :
    ( /\ InSuccession(i, j)
      /\ event[i].action = SgAction
      /\ fnReturn[i] = "success" )
    => /\ mutatingCalls[j] = <<>>
       /\ ingress_rules_to_revoke[j] = {}
       /\ DescribeReturned(j) => fnReturn[j] = "no_action"

\* C3 witness: a second run in succession returned 'no_action' after a first
\* run that revoked something.
C3_Witness ==
  \E i, j \in Invocations :
    /\ InSuccession(i, j)
    /\ event[i].action = SgAction
    /\ fnReturn[i] = "success"
    /\ mutatingCalls[i][1].removed # {}
    /\ fnReturn[j] = "no_action"
    /\ Ended(j)

\* C4: when the bucket task runs twice in succession and both put calls
\* succeed, both runs yield 'success' and the configuration the second call
\* leaves equals the one the first call left: all four fields true.
C4_BucketIdempotent ==
  \A i, j \in Invocations :
    ( /\ InSuccession(i, j)
      /\ event[i].action = S3Action
      /\ Succeeded(i, "put_public_access_block") )
    => /\ fnReturn[i] = "success"
       /\ mutatingCalls[i][1].config = AllPublicAccessBlocked
       /\ pab[BucketNameOf(event[i].resourceId)] = AllPublicAccessBlocked
       /\ Succeeded(j, "put_public_access_block")
          => /\ fnReturn[j] = "success"
             /\ mutatingCalls[j][1].config = mutatingCalls[i][1].config
       /\ returned[i].statusCode = 200 => returned[i].body = "success"
       /\ returned[j].statusCode = 200 => returned[j].body = "success"

\* C4 witness: two runs in succession on bucket b1, both reported 'success'.
C4_Witness ==
  \E i, j \in Invocations :
    /\ InSuccession(i, j)
    /\ event[i].action = S3Action
    /\ returned[i] = [statusCode |-> 200, body |-> "success"]
    /\ returned[j] = [statusCode |-> 200, body |-> "success"]
    /\ pab[<<"b1">>] = AllPublicAccessBlocked

\* C5 as stated: remediate_security_group returns 'no_action' exactly when the
\* rule set it read lists no 0.0.0.0/0 range, then without a revoke call, and
\* returns 'success' only after a revoke call that changed the rule set.
C5_Original ==
  \A i \in Invocations :
    DescribeReturned(i)
    => /\ fnReturn[i] = "no_action" <=> OverlyPermissive(sgRead[i]) = {}
       /\ fnReturn[i] = "no_action" => mutatingCalls[i] = <<>>
       /\ fnReturn[i] = "success"
          => \E n \in Calls(i) :
               /\ mutatingCalls[i][n].api = "revoke_security_group_ingress"
               /\ mutatingCalls[i][n].removed # {}

\* The anomalyDetails of the task, as a notification about it carries them.
CarriesDetails(n, ev) ==
  IF n.kind = "status" THEN n.details = AnomalyDetailsOf(ev) ELSE n.details = ev.anomalyDetails

\* C6: an invocation that returned an outcome (success, no_action, skipped or
\* failed) has delivered to the sink a notification with that status and the
\* task's anomalyDetails, also when the remediation call raised.
C6_OutcomeMirrored ==
  \A i \in Invocations :
    returned[i].body \in Statuses
    => \E n \in 1..Len(published[i]) :
         /\ published[i][n].status = returned[i].body
         /\ published[i][n].action = event[i].action
         /\ published[i][n].resourceId = event[i].resourceId
         /\ CarriesDetails(published[i][n], event[i])

\* C6 witness: the remediation call raised, and the invocation returned
\* 'failed' after its failure alert was delivered.
C6_Witness ==
  \E i \in Invocations :
    /\ fnReturn[i] = "raised"
    /\ returned[i] = [statusCode |-> 500, body |-> "failed"]
    /\ Len(published[i]) = 1
    /\ published[i][1].details \in AnomalyDetailsValues

\* C7 as stated: two executions for the same security group are never both
\* between their describe_security_groups read and their revoke call.
C7_Original ==
  \A i, j \in Invocations :
    ( /\ i # j
      /\ event[i].action = SgAction
      /\ event[j].action = SgAction
      /\ event[i].resourceId = event[j].resourceId )
    => ~(pc[i] = "sg_revoke" /\ pc[j] = "sg_revoke")

\* The buckets and groups whose state a step changes.
ChangedBuckets == { b \in BucketNames : pab'[b] # pab[b] }
ChangedGroups == { g \in GroupIds : rules'[g] # rules[g] }

\* C8: a step of an invocation with resourceId R changes at most the bucket
\* (bucket task) or the security group (group task) that R names and no other
\* bucket or group, and an invocation makes at most one mutating API call.
C8_OnlyNamedResourceOnce ==
  [][ \A i \in Invocations :
        pc'[i] # pc[i]
        => /\ ChangedBuckets \subseteq
                (IF event'[i].action = S3Action THEN {BucketNameOf(event'[i].resourceId)} ELSE {})
           /\ ChangedGroups \subseteq
                (IF event'[i].action = SgAction THEN {GroupIdOf(event'[i].resourceId)} ELSE {})
           /\ Cardinality(ChangedBuckets) + Cardinality(ChangedGroups) <= 1
           /\ Len(mutatingCalls'[i]) <= 1
           /\ \A n \in 1..Len(mutatingCalls'[i]) :
                mutatingCalls'[i][n].target =
                  (IF mutatingCalls'[i][n].api = "put_public_access_block"
                   THEN BucketNameOf(event'[i].resourceId)
                   ELSE GroupIdOf(event'[i].resourceId)) ]_vars

\* C8 witness: an invocation changed bucket b1 and a later one group sg1, one
\* call each, and bucket b2 and group sg2 are as they started.
C8_Witness ==
  \E i, j \in Invocations :
    /\ Succeeded(i, "put_public_access_block")
    /\ Succeeded(j, "revoke_security_group_ingress")
    /\ mutatingCalls[j][1].removed # {}
    /\ pab[<<"b1">>] = AllPublicAccessBlocked
    /\ pab[<<"b2">>] = {}
    /\ rules[<<"sg2">>] = Group2Rules

\* C9 as stated: once put_public_access_block has succeeded, the invocation
\* ends reporting 'success', whatever happens afterwards.
C9_Original ==
  \A i \in Invocations :
    (Ended(i) /\ event[i].action = S3Action /\ Succeeded(i, "put_public_access_block"))
    => returned[i].body = "success"

\* ------------------------------------------------------------------------
\* Properties of the Detection Trigger
\* ------------------------------------------------------------------------

\* C10: a cycle whose get_object reported NoSuchKey has ended with statusCode
\* 200 'No new data for inference.', without a scoring call, a started
\* execution or a failure alert.
C10_NoDataIsDone ==
  \A c \in Cycles :
    tGetObject[c] = "NoSuchKey"
    => /\ tpc[c] = "done"
       /\ tReturned[c] = [statusCode |-> 200, body |-> NoNewDataBody]
       /\ tScoringCalls[c] = 0
       /\ tExecutions[c] = <<>>
       /\ tAlerts[c] = <<>>
       /\ tPublishAttempts[c] = 0

\* C10 witness: the store held no batch and a cycle found it so.
C10_Witness ==
  \E c \in Cycles :
    /\ latestFeatures = NoBatch
    /\ tGetObject[c] = "NoSuchKey"
    /\ tpc[c] = "done"

\* The external calls of the try block (the alert publish is not one of them).
TryCalls == {"get_object", "invoke_endpoint", "start_execution"}

\* C11 as stated: a cycle in which a call of the try block failed never lets
\* an exception out of lambda_handler, and ends with one alert delivered and
\* a statusCode 500 result, whatever the notification sink does.
C11_Original ==
  \A c \in Cycles :
    (tFailedCalls[c] \cap TryCalls # {})
    => /\ tpc[c] # "raised"
       /\ tpc[c] = "done" => /\ Len(tAlerts[c]) = 1
                             /\ tReturned[c].statusCode = 500

\* C13 as stated: with the configuration complete, the batch in the store and
\* no external call failing, a cycle is never in Failed and ends with
\* statusCode 200 'Anomaly detection process completed.'.
C13_Original ==
  \A c \in Cycles :
    (ConfigurationComplete(environ) /\ latestFeatures # NoBatch /\ tFailedCalls[c] = {})
    => /\ tpc[c] \notin {"except_client", "except_other"}
       /\ tpc[c] = "done" => tReturned[c] = [statusCode |-> 200, body |-> CompletedBody]

\* ------------------------------------------------------------------------
\* Properties of the three handlers together
\* ------------------------------------------------------------------------

\* C14: in each of the three handlers, an invocation that started with a
\* required setting missing is never at an external call: it has ended with a
\* statusCode 500 configuration error and no storage read, scoring, lookup,
\* generative-text call, mutation, dispatch or publish was made.
C14_ConfigErrorMakesNoCall ==
  /\ \A i \in Invocations :
       (pc[i] \notin {"off", "idle"} /\ Falsy(SNS_ANOMALY_TOPIC_ARN))
       => /\ pc[i] = "done"
          /\ returned[i] = [statusCode |-> 500, body |-> ConfigErrorBody]
          /\ mutatingCalls[i] = <<>>
          /\ sgRead[i] = {}
          /\ fnReturn[i] = None
          /\ publishAttempts[i] = 0
  /\ \A c \in Cycles :
       (tpc[c] \notin {"off", "idle"} /\ ~ConfigurationComplete(environ))
       => /\ tpc[c] = "done"
          /\ tReturned[c] = [statusCode |-> 500, body |-> ConfigErrorBodyTrigger]
          /\ tGetObject[c] = None
          /\ tScoringCalls[c] = 0
          /\ tExecutions[c] = <<>>
          /\ tPublishAttempts[c] = 0
          /\ tFailedCalls[c] = {}
  /\ \A a \in Analyses :
       (apc[a] \notin {"off", "idle"} /\ ~AnalyzerConfigured(analyzerEnviron))
       => /\ apc[a] = "done"
          /\ aReturned[a] = [statusCode |-> 500, body |-> ConfigErrorBodyAnalyzer,
                             llm_analysis |-> None]
          /\ aCalls[a] = <<>>
          /\ aPublished[a] = <<>>
          /\ context_data[a] = <<>>

\* C14 witness: the three handlers, deployed without the topic setting, have
\* each been invoked and have each returned the configuration error.
C14_Witness ==
  /\ \E i \in Invocations : returned[i] = [statusCode |-> 500, body |-> ConfigErrorBody]
  /\ \E c \in Cycles : tReturned[c] = [statusCode |-> 500, body |-> ConfigErrorBodyTrigger]
  /\ \E a \in Analyses : aReturned[a].body = ConfigErrorBodyAnalyzer

\* C15 as stated: an invocation of any of the three handlers that ended with a
\* 4xx/5xx result or a raised exception made at least one publish call.
C15_Original ==
  /\ \A i \in Invocations :
       (pc[i] = "raised" \/ returned[i].statusCode >= 400) => publishAttempts[i] >= 1
  /\ \A c \in Cycles :
       (tpc[c] = "raised" \/ tReturned[c].statusCode >= 400) => tPublishAttempts[c] >= 1
  /\ \A a \in Analyses :
       (apc[a] = "raised" \/ aReturned[a].statusCode >= 400)
       => \E k \in 1..Len(aCalls[a]) : aCalls[a][k][1] = "publish"

\* ------------------------------------------------------------------------
\* Properties of the Bedrock Analyzer
\* ------------------------------------------------------------------------

\* The external calls analysis a made, as a set of positions.
ACalls(a) == 1..Len(aCalls[a])

\* Whether analysis a called api at all.
Called(a, api) == \E k \in ACalls(a) : aCalls[a][k][1] = api

\* Every external call analysis a made so far succeeded, the lookups finding
\* nothing and the model returning a text.
Smooth(a) == \A k \in ACalls(a) : aCalls[a][k][2] \in {"ok", "nothing", "text"}

\* C16 as stated: when no lookup has anything for the resource and every call
\* made succeeds, the analysis never fails, whatever the resource id: it ends
\* with statusCode 200, an empty context, the model invoked and the enriched
\* alert published.
C16_Original ==
  \A a \in Analyses :
    (AnalyzerConfigured(analyzerEnviron) /\ (\A l \in LookupNames : ~evidence[l]) /\ Smooth(a))
    => /\ apc[a] \notin {"except", "raised"}
       /\ apc[a] = "done"
          => /\ aReturned[a].statusCode = 200
             /\ context_data[a] = <<>>
             /\ Called(a, "invoke_model")
             /\ aPublished[a] = << EnrichedAlert(ResourceIdOf(aEvent[a]), Narrative) >>

\* Whether a call is one of the three lookups, and whether it failed.
IsLookup(call) == call[1] \in LookupNames
IsFailure(call) == call[2] \in {"ClientError", "Exception"}

\* The lookups analysis a attempted, and the sections of those that found
\* something, both in the order of the calls.
Attempted(a) ==
  LET calls == SelectSeq(aCalls[a], IsLookup)
  IN  [k \in 1..Len(calls) |-> calls[k][1]]

FoundSections(a) ==
  LET IsFound(call) == IsLookup(call) /\ call[2] = "found"
      calls == SelectSeq(aCalls[a], IsFound)
  IN  [k \in 1..Len(calls) |-> SectionOf(calls[k][1])]

\* C17 as stated: once an analysis in which a lookup failed (with a
\* ClientError or any other exception) is past get_contextual_data, the three
\* lookups were attempted in order, the context holds the sections of those
\* that found something, and the narrative step is reached.
C17_Original ==
  \A a \in Analyses :
    (/\ \E k \in ACalls(a) : IsLookup(aCalls[a][k]) /\ IsFailure(aCalls[a][k])
     /\ apc[a] \notin {"config_history", "cloudtrail", "cost"})
    => /\ Attempted(a) = Lookups
       /\ context_data[a] = FoundSections(a)
       /\ apc[a] = "invoke" \/ Called(a, "invoke_model")

\* The generative-text invocation of analysis a failed or returned no text.
NarrativeFailed(a) ==
  \E k \in ACalls(a) :
    aCalls[a][k][1] = "invoke_model" /\ aCalls[a][k][2] \in {"empty", "none", "ClientError", "Exception"}

\* C18 as stated: an analysis whose generative-text invocation failed or
\* returned no text ends with no enriched alert, exactly one failure alert
\* naming the resource, and a statusCode 500 result; an enriched alert is
\* published only after the invocation returned a text.
C18_Original ==
  \A a \in Analyses :
    /\ (NarrativeFailed(a) /\ apc[a] \in {"done", "raised"})
       => /\ aPublished[a] = << FailureAlert(ResourceIdOf(aEvent[a])) >>
          /\ aReturned[a].statusCode = 500
    /\ (\E k \in 1..Len(aPublished[a]) : aPublished[a][k].kind = "enriched")
       => \E k \in ACalls(a) : aCalls[a][k] = << "invoke_model", "text" >>

\* ------------------------------------------------------------------------
\* Properties of the scoring endpoint
\* ------------------------------------------------------------------------

\* The predict_fn calls that returned a scored batch.
Returned == { n \in 1..Len(scored) : scored[n].output.raised = None }

\* C19: a predict_fn call that returns, returns as many rows as its input
\* batch has, row k of the output being row k of the input with its columns
\* unchanged, plus is_anomaly in {0, 1} and anomaly_score.
C19_OrderPreserved ==
  \A n \in Returned :
    LET input == scored[n].input
        output == scored[n].output.rows
    IN  /\ Len(output) = Len(input)
        /\ \A k \in 1..Len(input) :
             /\ DOMAIN output[k] = DOMAIN input[k] \cup {"is_anomaly", "anomaly_score"}
             /\ \A column \in DOMAIN input[k] : output[k][column] = input[k][column]
             /\ output[k].is_anomaly \in {0, 1}
             /\ output[k].anomaly_score \in Int

\* C19 witness: a batch of two different rows was scored, the flagged row
\* second.
C19_Witness ==
  \E n \in Returned :
    /\ Len(scored[n].input) = 2
    /\ scored[n].input[1] # scored[n].input[2]
    /\ scored[n].output.rows[1].is_anomaly = 0
    /\ scored[n].output.rows[2].is_anomaly = 1

\* C20: under one model, two scored rows with the same feature values have
\* the same is_anomaly flag and the same anomaly_score, whatever batches they
\* were scored in and whatever else those batches held.
C20_FrozenThreshold ==
  \A n1, n2 \in Returned :
    \A k1 \in 1..Len(scored[n1].input), k2 \in 1..Len(scored[n2].input) :
      SelectNumber(scored[n1].input[k1]) = SelectNumber(scored[n2].input[k2])
      => /\ scored[n1].output.rows[k1].is_anomaly = scored[n2].output.rows[k2].is_anomaly
         /\ scored[n1].output.rows[k1].anomaly_score = scored[n2].output.rows[k2].anomaly_score

\* C20 witness: the same row was scored alone and then in a batch with a row
\* of another score, and the two rows of that batch got different flags.
C20_Witness ==
  /\ Len(scored) = 2
  /\ Returned = {1, 2}
  /\ Len(scored[1].input) = 1
  /\ Len(scored[2].input) = 2
  /\ scored[2].input[2] = scored[1].input[1]
  /\ scored[2].output.rows[1].is_anomaly # scored[2].output.rows[2].is_anomaly

\* ------------------------------------------------------------------------
\* Further properties of the Remediation Orchestrator
\* ------------------------------------------------------------------------

\* Invocation i makes a revoke_security_group_ingress call in this step.
RevokeStep(i) ==
  /\ Len(mutatingCalls'[i]) = Len(mutatingCalls[i]) + 1
  /\ mutatingCalls'[i][Len(mutatingCalls'[i])].api = "revoke_security_group_ingress"

\* The sources the permissions perms list, per permission key.
Listed(perms) == { ks \in PermKeys \X Sources :
                     \E p \in perms : p.key = ks[1] /\ ks[2] \in p.IpRanges \cup p.Others }

\* C26: an invocation gets to its revoke call only from its own describe read
\* of the group its resourceId names; the selection made from that read is not
\* changed by any step before the call; and the call, on that same group,
\* removes only sources listed in permissions of the read.
C26_RevokeFollowsOwnRead ==
  [][ \A i \in Invocations :
        LET sg_id == GroupIdOf(event[i].resourceId) IN
        /\ (pc'[i] = "sg_revoke" /\ pc[i] # "sg_revoke")
           => /\ pc[i] = "sg_describe"
              /\ sgRead'[i] = IpPermissions(rules[sg_id])
              /\ ingress_rules_to_revoke'[i] # {}
              /\ ingress_rules_to_revoke'[i] \subseteq sgRead'[i]
        /\ pc[i] = "sg_revoke"
           => /\ sgRead'[i] = sgRead[i]
              /\ ingress_rules_to_revoke'[i] = ingress_rules_to_revoke[i]
              /\ event'[i] = event[i]
        /\ RevokeStep(i)
           => /\ pc[i] = "sg_revoke"
              /\ ingress_rules_to_revoke[i] # {}
              /\ ingress_rules_to_revoke[i] \subseteq sgRead[i]
              /\ mutatingCalls'[i][Len(mutatingCalls'[i])].target = sg_id
              /\ mutatingCalls'[i][Len(mutatingCalls'[i])].removed
                    \subseteq Listed(ingress_rules_to_revoke[i])
              /\ \A g \in GroupIds \ {sg_id} : rules'[g] = rules[g] ]_vars

\* C26 witness: an invocation revoked, from a read that returned two
\* permissions, the one that lists 0.0.0.0/0.
C26_Witness ==
  \E i \in Invocations :
    /\ Succeeded(i, "revoke_security_group_ingress")
    /\ Cardinality(sgRead[i]) = 2
    /\ Cardinality(ingress_rules_to_revoke[i]) = 1
    /\ mutatingCalls[i][1].removed # {}

\* C29: with the topic configured, an invocation whose event has no action or
\* no resourceId has returned statusCode 400 without a mutating call, a read
\* or a publish, and the step that rejects it changes no bucket and no group.
C29_MalformedTaskRejected ==
  /\ [](\A i \in Invocations :
          ( /\ pc[i] \notin {"off", "idle"}
            /\ ~Falsy(SNS_ANOMALY_TOPIC_ARN)
            /\ (Falsy(event[i].action) \/ event[i].resourceId = NoResource) )
          => /\ pc[i] = "done"
             /\ returned[i] = [statusCode |-> 400, body |-> BadRequestBody]
             /\ mutatingCalls[i] = <<>>
             /\ sgRead[i] = {}
             /\ fnReturn[i] = None
             /\ published[i] = <<>>
             /\ publishAttempts[i] = 0)
  /\ [][ \A i \in Invocations :
           (pc[i] = "idle" /\ returned'[i].statusCode = 400) => (pab' = pab /\ rules' = rules) ]_vars

\* C29 witness: one invocation without an action and one without a resourceId
\* have both been rejected.
C29_Witness ==
  \E i, j \in Invocations :
    /\ Falsy(event[i].action) /\ event[i].resourceId # NoResource
    /\ ~Falsy(event[j].action) /\ event[j].resourceId = NoResource
    /\ returned[i].statusCode = 400
    /\ returned[j].statusCode = 400

\* ------------------------------------------------------------------------
\* Properties of the training job and of the model it saves
\* ------------------------------------------------------------------------

\* The run fitted a model and the endpoint has scored the evaluation batch
\* with it.
Evaluated(t) == trpc[t] = "fitted" /\ trScores[t] # NoScores

\* The number of numeric columns of the evaluation batch.
EvalWidth == Shape1([k \in 1..Len(evalBatch) |-> SelectNumber(evalBatch[k])])

C23_WidthMismatchRaises ==
  \A t \in Runs :
    (Evaluated(t) /\ evalBatch # <<>>)
      => /\ EvalWidth # trModel[t].n_features_in_
              => trScores[t] = Raise("ValueError")
         /\ trScores[t].raised = None
              => /\ EvalWidth = trModel[t].n_features_in_
                 /\ Len(trScores[t].rows) = Len(evalBatch)

\* A batch of two numeric columns went to a model fitted on one column, which
\* raised, and to a model fitted on two, which scored it.
C23_Witness ==
  /\ Evaluated(1) /\ Evaluated(2)
  /\ evalBatch # <<>>
  /\ EvalWidth = 2
  /\ trModel[1].n_features_in_ = 1
  /\ trModel[2].n_features_in_ = 2
  /\ trScores[1] = Raise("ValueError")
  /\ trScores[2].raised = None

\* ------------------------------------------------------------------------
\* Properties of the feature engineering job
\* ------------------------------------------------------------------------

\* The run wrote its feature file.
Written(r) == fepc[r] = "written"

\* C24 as stated: once a run on the training data has persisted its
\* preprocessor, every later run on new data transforms with the scaler
\* statistics and categories fitted on the training data, and leaves the
\* persisted preprocessor as the first run wrote it.
C24_Original ==
  \A r \in Runs :
    (r > 1 /\ Written(1) /\ Written(r))
      => /\ feFitted[r] = feFitted[1]
         /\ preprocessorFile = feFitted[1]

\* The numeric columns C27 names besides the two scaled ones.
CalendarNumerics == {"day_of_week", "day_of_month", "month", "is_weekend"}

\* C27 as stated: every feature row written holds the scaled cost, the scaled
\* usage, the calendar numerics day_of_week, day_of_month, month and
\* is_weekend, and a one-hot block for each of service_code, region,
\* usage_type, day_of_week and month; is_weekend is 1 exactly when
\* day_of_week is 5 or 6.
C27_Original ==
  \A r \in Runs :
    Written(r) =>
      \A k \in 1..Len(feWritten[r][2]) :
        LET row == feWritten[r][2][k]
            source == TimeFeatures(feInput[r][k])
        IN  /\ numerical_features \subseteq DOMAIN row
            /\ \A f \in categorical_features : OneHotName(f, source[f]) \in DOMAIN row
            /\ CalendarNumerics \subseteq DOMAIN row
            /\ row["is_weekend"] = 1 <=> row["day_of_week"] \in {5, 6}

\* ------------------------------------------------------------------------
\* Properties of the jobs on inputs without rows
\* ------------------------------------------------------------------------

\* C22: given zero rows (input files that hold no row, or an empty request
\* batch), the feature engineering run ends in an error having fitted and
\* written nothing, the training run ends in an error having fitted and saved
\* no model, and predict_fn ends in an error returning no row; the files at
\* the output location and the saved model stay as they were.
C22_ZeroRowsRaise ==
  /\ [](/\ \A r \in Runs :
            (fepc[r] \in {"raised", "written"} /\ feInput[r] = <<>>)
              => fepc[r] = "raised" /\ feWritten[r] = NoFile /\ feFitted[r] = NoFile
        /\ \A t \in Runs :
            (trpc[t] \in {"raised", "fitted"} /\ trainInput[t] = <<>>)
              => trpc[t] = "raised" /\ trModel[t] = NoModel
        /\ \A t \in Runs :
            (trScores[t] # NoScores /\ evalBatch = <<>>)
              => trScores[t] = Raise("ValueError"))
  /\ [][/\ \A r \in Runs :
            (fepc[r] = "idle" /\ fepc'[r] # "idle" /\ feInput[r] = <<>>)
              => featureFile' = featureFile /\ preprocessorFile' = preprocessorFile
        /\ \A t \in Runs :
            (trpc[t] = "idle" /\ trpc'[t] # "idle" /\ trainInput[t] = <<>>)
              => modelArtifact' = modelArtifact]_vars

\* A feature engineering run and a training run have both raised on files
\* without rows, and the endpoint has raised on an empty batch.
C22_Witness ==
  /\ feInput[1] = <<>> /\ fepc[1] = "raised"
  /\ trainInput[1] = <<>> /\ trpc[1] = "raised"
  /\ evalBatch = <<>> /\ trScores[1] = Raise("ValueError")
  /\ modelArtifact = PriorModel

\* ------------------------------------------------------------------------
\* Properties of the CUR aggregation job
\* ------------------------------------------------------------------------

\* The key of a row of the output store.
RowKey(row) == << row.usage_date, row.service_code, row.usage_type, row.region, row.resource_id >>

\* C25 as stated: after any sequence of runs, a re-run over line items already
\* processed included, the output store holds at most one row per key
\* (usage_date, service_code, usage_type, region, resource_id).
C25_Original ==
  \A x, y \in aggregated : RowKey(x) = RowKey(y) => x = y

\* ------------------------------------------------------------------------
\* Properties of the flow log aggregation job
\* ------------------------------------------------------------------------

\* An address in 10.0.0.0/8, 172.16.0.0/12 or 192.168.0.0/16.
Private(addr) ==
  \/ addr[1] = 10
  \/ addr[1] = 172 /\ addr[2] \in 16..31
  \/ addr[1] = 192 /\ addr[2] = 168

\* C28 as stated: once a run is over, an accepted flow with bytes > 0 is among
\* the flows kept as egress if and only if its destination address lies
\* outside the private ranges; every public destination is kept and every
\* 172.16-172.31 destination is dropped.
C28_Original ==
  \A r \in Runs :
    flowpc[r] \notin {"off", "idle"} =>
      \A k \in 1..Len(Filtered(flowSource)) :
        (\E j \in 1..Len(df_egress_flows[r]) : df_egress_flows[r][j] = Filtered(flowSource)[k])
          <=> ~Private(Filtered(flowSource)[k].dstaddr)

====
